---- MODULE Spec2Model ----
(***************************************************************************)
(* Model of screenshot.js: one run of the screenshot action.  The async    *)
(* IIFE is a sequential program; every await is a step at which the        *)
(* awaited call either resolves or rejects.  Strings are sequences of      *)
(* one-character strings so that split, trim, the scheme test and the URL  *)
(* composition are computed the way the code computes them.  The           *)
(* url/output variant of the action (unnamed/part_003) is a program of its *)
(* own, the UrlVariant actions, over the same browser, page and outputs.   *)
(***************************************************************************)
EXTENDS Integers, Sequences, FiniteSets, TLC

VARIABLES
  SCREENSHOTS,      \* process.env.SCREENSHOTS: a string, or Absent
  INPUT_PORT,       \* process.env.INPUT_PORT: a string of digits, or Absent
  INPUT_HOST,       \* process.env.INPUT_HOST: a string, or Absent
  INPUT_WIDTH,      \* process.env.INPUT_WIDTH: a string of digits, or Absent
  INPUT_HEIGHT,     \* process.env.INPUT_HEIGHT: a string of digits, or Absent
  INPUT_WEBP_OPTIONS,  \* process.env.INPUT_WEBP_OPTIONS: a string, or Absent
  INPUT_PNG_OPTIONS,   \* process.env.INPUT_PNG_OPTIONS: a string, or Absent
  INPUT_JPEG_OPTIONS,  \* process.env.INPUT_JPEG_OPTIONS: a string, or Absent
  pc,               \* position of the IIFE
  screenshotPairs,  \* the parsed targets
  viewportWidth,    \* a number
  viewportHeight,   \* Null, or <<n>> for the number n
  webpOptions,      \* the options objects handed to the encoders: Undefined
  pngOptions,       \* until they are assigned, then a sequence of members
  jpegOptions,      \* <<key, value>>
  server,           \* "null" or "Server" (the handle createServer resolved to)
  serverPort,       \* 0 for null, else the port
  attempt,          \* waitForServer's loop counter
  i,                \* 1-based index of the target being processed
  results,          \* the results array
  exitCode,         \* -1 while running, then the process exit status
  \* what the collaborators have been asked to do so far
  serverStarts,     \* calls of createServer
  listen,           \* arguments of the createServer / server.listen calls
  serverCloses,     \* calls of server.close()
  probeOk,          \* TRUE once a readiness probe has succeeded
  waitExhausted,    \* TRUE once waitForServer has returned false
  serverError,      \* TRUE once createServer has rejected
  browser,          \* "null" or "Browser" (what chromium.launch resolved to)
  browserLaunches,  \* calls of chromium.launch()
  browserCloses,    \* calls of browser.close()
  newPages,         \* calls of browser.newPage()
  viewportCalls,    \* arguments of the page.setViewportSize calls
  calls,            \* every call on the page, the file system and the
                    \* encoder, in order: <<operation, target index, argument>>
  navigations,      \* page.goto calls: <<target index, url>>
  captures,         \* page.screenshot calls: target indexes
  written,          \* toFile calls that completed: <<target index, path>>
  outputs,          \* ::set-output lines emitted: <<name, value>>
  failedAt,         \* index of the target whose step rejected, 0 if none
  encoders,         \* sharp's .png()/.jpeg()/.webp() calls:
                    \* <<target index, format, options>>
  mkdirError,       \* the error fs.mkdir rejected with inside
                    \* ensureDirectoryExists, "none" if it resolved
  fileSystem,       \* the workspace directory: path |-> "file" or "dir"
  request,          \* the URL of the request the server handled last, or Null
  response,         \* the response to it, or Null
  \* the state of the url/output variant of the action
  INPUT_URL,        \* process.env.INPUT_URL: a string, or Absent
  INPUT_OUTPUT,     \* process.env.INPUT_OUTPUT: a string, or Absent
  urls,             \* the URLs to capture
  outputFiles,      \* the file names, one for each URL once they are filled up
  localPorts,       \* the Set of ports, in the order of insertion
  servers,          \* the keys of the servers object: the ports with a process
  spawns,           \* calls of spawn("npx", ["serve", ...]): the ports
  kills             \* calls of servers[port].kill(): the ports

vars == <<SCREENSHOTS, INPUT_PORT, INPUT_HOST, INPUT_WIDTH, INPUT_HEIGHT,
          INPUT_WEBP_OPTIONS, INPUT_PNG_OPTIONS, INPUT_JPEG_OPTIONS, pc,
          screenshotPairs, viewportWidth, viewportHeight, webpOptions,
          pngOptions, jpegOptions, server, serverPort,
          attempt, i, results, exitCode, serverStarts, listen, serverCloses,
          probeOk, waitExhausted, serverError, browser, browserLaunches,
          browserCloses, newPages, viewportCalls, calls, navigations,
          captures, written, outputs, failedAt, encoders, mkdirError,
          fileSystem, request, response, INPUT_URL, INPUT_OUTPUT, urls,
          outputFiles, localPorts, servers, spawns, kills>>

---------------------------------------------------------------------------
(* Bounds of the model *)

MaxTargets == 3   \* items of SCREENSHOTS in a run
MaxLen == 5       \* length of the strings the parser is run on by itself

---------------------------------------------------------------------------
(* Values *)

Absent == << "<unset>" >>          \* an environment variable that is not set
Undefined == << "<undefined>" >>   \* JavaScript's undefined
Null == <<>>                       \* null, where the other values are <<n>>

WhiteSpace == {" ", "\n"}

\* the default output of the url/output variant, which is no mapping
DefaultScreenshotsStale ==
  <<"s", "c", "r", "e", "e", "n", "s", "h", "o", "t", ".", "w", "e", "b", "p">>

DefaultScreenshots ==
  <<"/", "=", "s", "c", "r", "e", "e", "n", "s", "h", "o", "t", ".", "w", "e", "b", "p">>

DefaultPort == <<"3", "0", "0", "0">>

DefaultWidth == <<"1", "2", "8", "0">>

DefaultHeight == 800

workspacePath == <<"/", "w">>

maxAttempts == 20

---------------------------------------------------------------------------
(* String functions of JavaScript that the code uses *)

RECURSIVE SplitFrom(_, _, _)
SplitFrom(s, sep, cur) ==
  IF s = <<>> THEN <<cur>>
  ELSE IF Head(s) = sep THEN <<cur>> \o SplitFrom(Tail(s), sep, <<>>)
  ELSE SplitFrom(Tail(s), sep, Append(cur, Head(s)))

split(s, sep) == SplitFrom(s, sep, <<>>)

RECURSIVE trimStart(_)
trimStart(s) ==
  IF s # <<>> /\ Head(s) \in WhiteSpace THEN trimStart(Tail(s)) ELSE s

RECURSIVE trimEnd(_)
trimEnd(s) ==
  IF s # <<>> /\ s[Len(s)] \in WhiteSpace
  THEN trimEnd(SubSeq(s, 1, Len(s) - 1)) ELSE s

trim(s) == trimEnd(trimStart(s))

toLowerChar(c) ==
  CASE c = "H" -> "h" [] c = "T" -> "t" [] c = "P" -> "p" [] c = "S" -> "s"
    [] c = "E" -> "e" [] c = "N" -> "n" [] c = "G" -> "g" [] c = "J" -> "j"
    [] c = "W" -> "w" [] c = "B" -> "b" [] OTHER -> c

toLowerCase(s) == [k \in 1..Len(s) |-> toLowerChar(s[k])]

startsWith(s, p) == Len(s) >= Len(p) /\ SubSeq(s, 1, Len(p)) = p

RECURSIVE join(_, _)
join(xs, sep) ==
  IF xs = <<>> THEN <<>>
  ELSE IF Len(xs) = 1 THEN xs[1]
  ELSE xs[1] \o sep \o join(Tail(xs), sep)

DigitValue(c) ==
  CASE c = "0" -> 0 [] c = "1" -> 1 [] c = "2" -> 2 [] c = "3" -> 3
    [] c = "4" -> 4 [] c = "5" -> 5 [] c = "6" -> 6 [] c = "7" -> 7
    [] c = "8" -> 8 [] c = "9" -> 9

RECURSIVE digitsValue(_)
digitsValue(s) ==
  IF s = <<>> THEN 0
  ELSE 10 * digitsValue(SubSeq(s, 1, Len(s) - 1)) + DigitValue(s[Len(s)])

RECURSIVE leadingDigits(_)
leadingDigits(s) ==
  IF s # <<>> /\ Head(s) \in {"0", "1", "2", "3", "4", "5", "6", "7", "8", "9"}
  THEN <<Head(s)>> \o leadingDigits(Tail(s)) ELSE <<>>

\* NaN, the number that is not equal to any number and is falsy.  The
\* strings parsed here have no sign, so that no string parses to a negative
\* number, and NaN is kept apart from the numbers as -1
NaN == -1

\* parseInt(s, 10) for strings without a sign: leading white space is
\* skipped and the digits up to the first other character are read; NaN
\* when there is no digit
parseInt(s) ==
  LET d == leadingDigits(trimStart(s))
  IN  IF d = <<>> THEN NaN ELSE digitsValue(d)

DigitChar(d) ==
  CASE d = 0 -> "0" [] d = 1 -> "1" [] d = 2 -> "2" [] d = 3 -> "3"
    [] d = 4 -> "4" [] d = 5 -> "5" [] d = 6 -> "6" [] d = 7 -> "7"
    [] d = 8 -> "8" [] d = 9 -> "9"

RECURSIVE numberToString(_)
numberToString(n) ==
  IF n < 10 THEN <<DigitChar(n)>>
  ELSE Append(numberToString(n \div 10), DigitChar(n % 10))

---------------------------------------------------------------------------
(* JSON.stringify and JSON.parse, for objects whose members are numbers and
   booleans and for texts without white space.  An object is the sequence
   of its members <<key, value>>; a value is <<"number", n>> or
   <<"boolean", b>> with b = 1 for true. *)

Digits == {"0", "1", "2", "3", "4", "5", "6", "7", "8", "9"}

TrueText == <<"t", "r", "u", "e">>

FalseText == <<"f", "a", "l", "s", "e">>

stringifyValue(v) ==
  IF v[1] = "boolean" THEN (IF v[2] = 1 THEN TrueText ELSE FalseText)
  ELSE numberToString(v[2])

JSONstringify(obj) ==
  <<"{">>
    \o join([k \in 1..Len(obj) |->
               <<"\"">> \o obj[k][1] \o <<"\"", ":">> \o stringifyValue(obj[k][2])],
            <<",">>)
    \o <<"}">>

isJSONNumber(t) ==
  /\ t # <<>>
  /\ \A k \in 1..Len(t) : t[k] \in Digits
  /\ Len(t) > 1 => t[1] # "0"

isJSONValue(t) == t = TrueText \/ t = FalseText \/ isJSONNumber(t)

isJSONString(t) ==
  /\ Len(t) >= 2
  /\ t[1] = "\"" /\ t[Len(t)] = "\""
  /\ \A k \in 2..(Len(t) - 1) : t[k] # "\""

isJSONMember(m) ==
  LET kv == split(m, ":")
  IN  Len(kv) = 2 /\ isJSONString(kv[1]) /\ isJSONValue(kv[2])

parseValue(t) ==
  IF t = TrueText THEN <<"boolean", 1>>
  ELSE IF t = FalseText THEN <<"boolean", 0>>
  ELSE <<"number", parseInt(t)>>

parseMember(m) ==
  LET kv == split(m, ":")
  IN  <<SubSeq(kv[1], 2, Len(kv[1]) - 1), parseValue(kv[2])>>

\* JSON.parse(text): [ok |-> TRUE, value |-> the object], or ok = FALSE
\* where JSON.parse throws a SyntaxError
JSONparse(text) ==
  IF Len(text) < 2 \/ text[1] # "{" \/ text[Len(text)] # "}"
  THEN [ok |-> FALSE, value |-> <<>>]
  ELSE LET body == SubSeq(text, 2, Len(text) - 1)
           members == IF body = <<>> THEN <<>> ELSE split(body, ",")
       IN  IF \A k \in 1..Len(members) : isJSONMember(members[k])
           THEN [ok |-> TRUE,
                 value |-> [k \in 1..Len(members) |-> parseMember(members[k])]]
           ELSE [ok |-> FALSE, value |-> <<>>]

\* lines 126-130
defaultOptions ==
  [webp |-> << <<<<"l", "o", "s", "s", "l", "e", "s", "s">>, <<"boolean", 1>>>>,
               <<<<"q", "u", "a", "l", "i", "t", "y">>, <<"number", 100>>>>,
               <<<<"e", "f", "f", "o", "r", "t">>, <<"number", 6>>>> >>,
   png |-> << <<<<"q", "u", "a", "l", "i", "t", "y">>, <<"number", 100>>>> >>,
   jpeg |-> << <<<<"q", "u", "a", "l", "i", "t", "y">>, <<"number", 90>>>> >>]

\* process.env.X || JSON.stringify(defaultOptions.x)
optionsText(envValue, default) ==
  IF envValue = Absent \/ envValue = <<>> THEN JSONstringify(default) ELSE envValue

\* lines 132-141: one try block around the three parses, whose catch
\* assigns the defaults to all three
parseFormatOptions(webpText, pngText, jpegText) ==
  LET w == JSONparse(optionsText(webpText, defaultOptions.webp))
      p == JSONparse(optionsText(pngText, defaultOptions.png))
      j == JSONparse(optionsText(jpegText, defaultOptions.jpeg))
  IN  IF w.ok /\ p.ok /\ j.ok
      THEN [webp |-> w.value, png |-> p.value, jpeg |-> j.value]
      ELSE defaultOptions

---------------------------------------------------------------------------
(* The target parser *)

Boolean(s) == s # <<>>

\* the item cut at its first "=" alone: the destination is all that follows
parsePairKeepsRest(pair) ==
  LET t == trim(pair)
      raw == split(t, "=")
      first == trim(raw[1])
  IN  [urlPath |-> first,
       outputPath |-> IF Len(raw) >= 2
                      THEN trim(SubSeq(t, Len(raw[1]) + 2, Len(t)))
                      ELSE Undefined]

parsePair(pair) ==
  LET raw == split(trim(pair), "=")
      parts == [k \in 1..Len(raw) |-> trim(raw[k])]
  IN  [urlPath |-> parts[1],
       outputPath |-> IF Len(parts) >= 2 THEN parts[2] ELSE Undefined]

parseScreenshots(env) ==
  LET input == IF env = Absent \/ env = <<>> THEN DefaultScreenshots ELSE env
      items == SelectSeq(split(input, ","), Boolean)
  IN  [k \in 1..Len(items) |-> parsePair(items[k])]

---------------------------------------------------------------------------
(* The local server decision and the URL of a target *)

isAbsoluteUrlCaseSensitive(url) ==
  /\ startsWith(url, <<"h", "t", "t", "p">>)
  /\ LET rest == SubSeq(url, 5, Len(url))
         afterS == IF rest # <<>> /\ Head(rest) = "s" THEN Tail(rest) ELSE rest
     IN  startsWith(afterS, <<":", "/", "/">>)

isAbsoluteUrl(url) ==
  LET u == toLowerCase(url)
  IN  /\ startsWith(u, <<"h", "t", "t", "p">>)
      /\ LET rest == SubSeq(u, 5, Len(u))
             afterS == IF rest # <<>> /\ Head(rest) = "s" THEN Tail(rest) ELSE rest
         IN  startsWith(afterS, <<":", "/", "/">>)

\* the test of the first target alone
needsLocalServerFirstOnly(pairs) ==
  pairs # <<>> /\ ~isAbsoluteUrl(pairs[1].urlPath)

needsLocalServer(pairs) ==
  \E k \in 1..Len(pairs) : ~isAbsoluteUrl(pairs[k].urlPath)

\* the rewrite without the test for a leading slash
targetUrlNoSlash(urlPath, srv, port) ==
  IF isAbsoluteUrl(urlPath) THEN urlPath
  ELSE IF srv # "null"
  THEN <<"h", "t", "t", "p", ":", "/", "/", "l", "o", "c", "a", "l", "h", "o", "s", "t", ":">>
         \o numberToString(port) \o urlPath
  ELSE urlPath

\* the rewrite with the default port in place of serverPort
targetUrlDefaultPort(urlPath, srv, port) ==
  IF isAbsoluteUrl(urlPath) THEN urlPath
  ELSE IF srv # "null"
  THEN <<"h", "t", "t", "p", ":", "/", "/", "l", "o", "c", "a", "l", "h", "o", "s", "t", ":">>
         \o DefaultPort
         \o (IF startsWith(urlPath, <<"/">>) THEN urlPath ELSE <<"/">> \o urlPath)
  ELSE urlPath

targetUrl(urlPath, srv, port) ==
  IF isAbsoluteUrl(urlPath) THEN urlPath
  ELSE IF srv # "null"
  THEN <<"h", "t", "t", "p", ":", "/", "/", "l", "o", "c", "a", "l", "h", "o", "s", "t", ":">>
         \o numberToString(port)
         \o (IF startsWith(urlPath, <<"/">>) THEN urlPath ELSE <<"/">> \o urlPath)
  ELSE urlPath

\* path.join in place of path.resolve: an absolute destination is put
\* under the base as well
pathResolveJoins(base, p) ==
  IF p = <<>> THEN base
  ELSE IF Head(p) = "/" THEN base \o p
  ELSE base \o <<"/">> \o p

\* path.resolve(workspacePath, outputPath) for destinations without "." or
\* ".." segments: an absolute destination wins, a relative one is appended
pathResolve(base, p) ==
  IF p = <<>> THEN base
  ELSE IF Head(p) = "/" THEN p
  ELSE base \o <<"/">> \o p

\* path.basename, path.dirname and path.extname for paths without
\* trailing or doubled slashes
RECURSIVE lastIndexOf(_, _)
lastIndexOf(s, c) ==
  IF s = <<>> THEN 0
  ELSE IF s[Len(s)] = c THEN Len(s)
  ELSE lastIndexOf(SubSeq(s, 1, Len(s) - 1), c)

basename(p) == SubSeq(p, lastIndexOf(p, "/") + 1, Len(p))

dirname(p) ==
  LET k == lastIndexOf(p, "/")
  IN  IF k = 0 THEN <<".">> ELSE IF k = 1 THEN <<"/">> ELSE SubSeq(p, 1, k - 1)

extname(p) ==
  LET b == basename(p)
      d == lastIndexOf(b, ".")
  IN  IF d <= 1 \/ b = <<".", ".">> THEN <<>> ELSE SubSeq(b, d, Len(b))

\* the dispatch without the .jpeg spelling
encoderForJpgOnly(ext) ==
  IF ext = <<".", "p", "n", "g">> THEN "png"
  ELSE IF ext = <<".", "j", "p", "g">> THEN "jpeg"
  ELSE "webp"

\* lines 193-199: the encoder chosen for an extension
encoderFor(ext) ==
  IF ext = <<".", "p", "n", "g">> THEN "png"
  ELSE IF ext \in { <<".", "j", "p", "g">>, <<".", "j", "p", "e", "g">> } THEN "jpeg"
  ELSE "webp"

\* line 122 and the tests of lines 166 and 186
parseHeight(h) == IF h = Absent \/ h = <<>> THEN Null ELSE <<parseInt(h)>>

\* the truth test that takes NaN for a number like any other
truthyButForZero(h) == h # Null /\ h[1] # 0

\* a number is truthy when it is neither 0 nor NaN
truthy(h) == h # Null /\ h[1] # 0 /\ h[1] # NaN

---------------------------------------------------------------------------
(* The request handler of the local server, lines 40-68, over a workspace
   directory given as the set of its files and the set of its directories *)

indexHtml == <<"i", "n", "d", "e", "x", ".", "h", "t", "m", "l">>

\* new URL(req.url, base).pathname for a request URL that is a path with
\* an optional query: the part before "?"
pathname(url) == split(url, "?")[1]

RECURSIVE normalizeSlashes(_)
normalizeSlashes(p) ==
  IF Len(p) < 2 THEN p
  ELSE IF p[1] = "/" /\ p[2] = "/" THEN normalizeSlashes(Tail(p))
  ELSE <<p[1]>> \o normalizeSlashes(Tail(p))

\* path.join(a, b) for paths without "." and ".." segments
pathJoin(a, b) == normalizeSlashes(a \o <<"/">> \o b)

\* fs.stat(p): "dir", "file", or "ENOENT" where it rejects; a trailing
\* slash is allowed on the path of a directory only
stat(files, p) ==
  LET q == IF Len(p) > 1 /\ p[Len(p)] = "/" THEN SubSeq(p, 1, Len(p) - 1) ELSE p
  IN  IF q \in files.dirs THEN "dir"
      ELSE IF p \in files.files THEN "file"
      ELSE "ENOENT"

\* fs.access(p) resolves for a path that exists
accessible(files, p) == stat(files, p) # "ENOENT"

\* the directories that lead to p, and p
ancestors(p) ==
  { SubSeq(p, 1, k) : k \in { j \in 1..Len(p) : j = Len(p) \/ p[j + 1] = "/" } }

\* fs.mkdir(dir, { recursive: true }) that resolved: the directory and the
\* missing ones above it are there
mkdirRecursive(files, dir) == [files EXCEPT !.dirs = @ \cup ancestors(dir)]

isDirectory(files, p) == p = <<"/">> \/ p \in files.dirs

\* toFile(p) that resolved: the file is there
writeFile(files, p) == [files EXCEPT !.files = @ \cup {p}]

\* a handler that answers every directory with its listing
handleRequestListingOnly(files, rootDir, url) ==
  LET filePath == pathJoin(rootDir, IF pathname(url) = <<"/">>
                                    THEN <<"/">> \o indexHtml ELSE pathname(url))
      stats == stat(files, filePath)
  IN  IF stats = "ENOENT"
      THEN [status |-> 404, kind |-> "notFound", path |-> <<>>]
      ELSE IF stats = "dir"
      THEN [status |-> 200, kind |-> "listing", path |-> filePath]
      ELSE [status |-> 200, kind |-> "file", path |-> filePath]

\* lines 41-62: the response to a request; fs.readFile of a path that is
\* not a file rejects, which the inner catch answers with 404
handleRequest(files, rootDir, url) ==
  LET filePath == pathJoin(rootDir, IF pathname(url) = <<"/">>
                                    THEN <<"/">> \o indexHtml ELSE pathname(url))
      stats == stat(files, filePath)
      indexPath == pathJoin(filePath, indexHtml)
  IN  IF stats = "ENOENT"
      THEN [status |-> 404, kind |-> "notFound", path |-> <<>>]
      ELSE IF stats = "dir"
      THEN IF accessible(files, indexPath)
           THEN IF stat(files, indexPath) = "file"
                THEN [status |-> 200, kind |-> "file", path |-> indexPath]
                ELSE [status |-> 404, kind |-> "notFound", path |-> <<>>]
           ELSE [status |-> 200, kind |-> "listing", path |-> filePath]
      ELSE [status |-> 200, kind |-> "file", path |-> filePath]

---------------------------------------------------------------------------
(* Initial states *)

\* no request was handled yet
NoResponse == [status |-> 0, kind |-> "none", path |-> <<>>]

\* the workspace of a run: /w with the file /w/index.html
WorkspaceFiles ==
  [files |-> { workspacePath \o <<"/">> \o indexHtml }, dirs |-> { workspacePath }]

\* the workspaces the request handler is run on: /w with any of the files
\* index.html, f and d/index.html and of the directories d and e
CandidateFiles ==
  { workspacePath \o <<"/">> \o indexHtml,
    workspacePath \o <<"/", "f">>,
    workspacePath \o <<"/", "d", "/">> \o indexHtml }

CandidateDirs == { workspacePath \o <<"/", "d">>, workspacePath \o <<"/", "e">> }

FileSystems ==
  { [files |-> F, dirs |-> D \cup { workspacePath }] :
      <<F, D>> \in { fd \in (SUBSET CandidateFiles) \X (SUBSET CandidateDirs) :
                       \A f \in fd[1] : dirname(f) \in fd[2] \cup { workspacePath } } }

\* the request URLs: "/", "/index.html", "/d", "/d/", "/d?q", "/d/index.html",
\* "/e", "/f" and "/x"
RequestUrls ==
  { <<"/">>, <<"/">> \o indexHtml, <<"/", "d">>, <<"/", "d", "/">>,
    <<"/", "d", "?", "q">>, <<"/", "d", "/">> \o indexHtml,
    <<"/", "e">>, <<"/", "f">>, <<"/", "x">> }

\* the destinations of the runs that exercise the encoders: "o.png",
\* "o.PNG", "o.jpg", "o.jpeg", "o.JPEG", "o.webp", "o.gif", "o", "d/o.jpg"
\* and "/t/o.png"
Destinations ==
  { <<"o", ".", "p", "n", "g">>, <<"o", ".", "P", "N", "G">>,
    <<"o", ".", "j", "p", "g">>, <<"o", ".", "j", "p", "e", "g">>,
    <<"o", ".", "J", "P", "E", "G">>, <<"o", ".", "w", "e", "b", "p">>,
    <<"o", ".", "g", "i", "f">>, <<"o">>,
    <<"d", "/", "o", ".", "j", "p", "g">>,
    <<"/", "t", "/", "o", ".", "p", "n", "g">> }

\* {"quality":80,"effort":4}
CustomWebpOptions ==
  <<"{", "\"", "q", "u", "a", "l", "i", "t", "y", "\"", ":", "8", "0", ",",
    "\"", "e", "f", "f", "o", "r", "t", "\"", ":", "4", "}">>

\* {"quality":95}
CustomPngOptions ==
  <<"{", "\"", "q", "u", "a", "l", "i", "t", "y", "\"", ":", "9", "5", "}">>

\* {"quality":85,"progressive":true}
CustomJpegOptions ==
  <<"{", "\"", "q", "u", "a", "l", "i", "t", "y", "\"", ":", "8", "5", ",",
    "\"", "p", "r", "o", "g", "r", "e", "s", "s", "i", "v", "e", "\"", ":",
    "t", "r", "u", "e", "}">>

\* {invalid json}
MalformedOptions ==
  <<"{", "i", "n", "v", "a", "l", "i", "d", " ", "j", "s", "o", "n", "}">>

\* the items a run's SCREENSHOTS is made of: "/a=x.png", "b=y.jpg",
\* "https://e/=e.webp", "HTTP://E=z" and "/c" (an item without "=")
Items ==
  { <<"/", "a", "=", "x", ".", "p", "n", "g">>,
    <<"b", "=", "y", ".", "j", "p", "g">>,
    <<"h", "t", "t", "p", "s", ":", "/", "/", "e", "/", "=", "e", ".", "w", "e", "b", "p">>,
    <<"H", "T", "T", "P", ":", "/", "/", "E", "=", "z">>,
    <<"/", "c">> }

RunInputs ==
  {Absent, <<",">>} \cup
  { join(c, <<",">>) : c \in UNION { [1..n -> Items] : n \in 1..MaxTargets } }

\* every string of at most MaxLen characters over the parser's alphabet
ParserAlphabet == {",", "\n", " ", "=", "a", "b"}

ParserInputs ==
  {Absent} \cup UNION { [1..n -> ParserAlphabet] : n \in 0..MaxLen }

\* the variables of the url/output variant in a run of screenshot.js
NoUrlVariant ==
  /\ INPUT_URL = Absent
  /\ INPUT_OUTPUT = Absent
  /\ urls = <<>>
  /\ outputFiles = <<>>
  /\ localPorts = <<>>
  /\ servers = {}
  /\ spawns = <<>>
  /\ kills = <<>>

InitRun ==
  /\ NoUrlVariant
  /\ pc = "parse"
  /\ screenshotPairs = <<>>
  /\ viewportWidth = 0
  /\ viewportHeight = Null
  /\ listen = <<>>
  /\ newPages = 0
  /\ viewportCalls = <<>>
  /\ calls = <<>>
  /\ server = "null"
  /\ serverPort = 0
  /\ attempt = 0
  /\ i = 0
  /\ results = <<>>
  /\ exitCode = -1
  /\ serverStarts = 0
  /\ serverCloses = 0
  /\ probeOk = FALSE
  /\ waitExhausted = FALSE
  /\ serverError = FALSE
  /\ browser = "null"
  /\ browserLaunches = 0
  /\ browserCloses = 0
  /\ navigations = <<>>
  /\ captures = <<>>
  /\ written = <<>>
  /\ outputs = <<>>
  /\ failedAt = 0
  /\ webpOptions = Undefined
  /\ pngOptions = Undefined
  /\ jpegOptions = Undefined
  /\ encoders = <<>>
  /\ mkdirError = "none"
  /\ request = Null
  /\ response = NoResponse

Init ==
  /\ SCREENSHOTS \in RunInputs
  /\ INPUT_PORT \in {Absent, <<"4", "3", "2", "1">>}
  /\ INPUT_HOST \in {Absent, <<"1", "2", "7", ".", "0", ".", "0", ".", "1">>}
  /\ INPUT_WIDTH \in {Absent, <<"6", "4", "0">>}
  /\ INPUT_HEIGHT \in {Absent, <<"9", "0", "0">>, <<"0">>}
  \* the host, which no line of the program reads, is set in the runs that
  \* have the port and the viewport at their defaults
  /\ INPUT_HOST # Absent =>
       (INPUT_PORT = Absent /\ INPUT_WIDTH = Absent /\ INPUT_HEIGHT = Absent)
  /\ INPUT_WEBP_OPTIONS = Absent
  /\ INPUT_PNG_OPTIONS = Absent
  /\ INPUT_JPEG_OPTIONS = Absent
  /\ fileSystem = WorkspaceFiles
  /\ InitRun

InitParser ==
  /\ SCREENSHOTS \in ParserInputs
  /\ INPUT_PORT = Absent
  /\ INPUT_HOST = Absent
  /\ INPUT_WIDTH = Absent
  /\ INPUT_HEIGHT = Absent
  /\ INPUT_WEBP_OPTIONS = Absent
  /\ INPUT_PNG_OPTIONS = Absent
  /\ INPUT_JPEG_OPTIONS = Absent
  /\ fileSystem = WorkspaceFiles
  /\ InitRun

\* runs of one target "/" with each destination and each combination of
\* absent, well-formed and malformed format options
InitDestinations ==
  /\ SCREENSHOTS \in { <<"/", "=">> \o d : d \in Destinations }
  /\ INPUT_PORT = Absent
  /\ INPUT_HOST = Absent
  /\ INPUT_WIDTH = Absent
  /\ INPUT_HEIGHT = Absent
  /\ INPUT_WEBP_OPTIONS \in {Absent, CustomWebpOptions, MalformedOptions}
  /\ INPUT_PNG_OPTIONS \in {Absent, CustomPngOptions, MalformedOptions}
  /\ INPUT_JPEG_OPTIONS \in {Absent, CustomJpegOptions, MalformedOptions}
  /\ fileSystem = WorkspaceFiles
  /\ InitRun

\* runs with the default inputs but for SCREENSHOTS
InitTargets ==
  /\ SCREENSHOTS \in RunInputs
  /\ INPUT_PORT = Absent
  /\ INPUT_HOST = Absent
  /\ INPUT_WIDTH = Absent
  /\ INPUT_HEIGHT = Absent
  /\ INPUT_WEBP_OPTIONS = Absent
  /\ INPUT_PNG_OPTIONS = Absent
  /\ INPUT_JPEG_OPTIONS = Absent
  /\ fileSystem = WorkspaceFiles
  /\ InitRun

\* runs of up to MaxTargets of the short items "a=x", "http://e=z" and "c"
\* (an item without "="), and of no item
ShortItems ==
  { <<"a", "=", "x">>,
    <<"h", "t", "t", "p", ":", "/", "/", "e", "=", "z">>,
    <<"c">> }

InitShort ==
  /\ SCREENSHOTS \in
       {<<",">>} \cup
       { join(c, <<",">>) : c \in UNION { [1..n -> ShortItems] : n \in 1..MaxTargets } }
  /\ INPUT_PORT = Absent
  /\ INPUT_HOST = Absent
  /\ INPUT_WIDTH = Absent
  /\ INPUT_HEIGHT = Absent
  /\ INPUT_WEBP_OPTIONS = Absent
  /\ INPUT_PNG_OPTIONS = Absent
  /\ INPUT_JPEG_OPTIONS = Absent
  /\ fileSystem = WorkspaceFiles
  /\ InitRun

\* the heights of the runs that exercise the viewport: absent, "", "0",
\* "00", "x", " ", "12px" and "900"
Heights ==
  { Absent, <<>>, <<"0">>, <<"0", "0">>, <<"x">>, <<" ">>,
    <<"1", "2", "p", "x">>, <<"9", "0", "0">> }

\* runs of the default target and of two targets with each height
InitViewport ==
  /\ SCREENSHOTS \in
       { Absent,
         <<"/", "a", "=", "x", ".", "p", "n", "g", ",", "b", "=", "y", ".", "j", "p", "g">> }
  /\ INPUT_PORT = Absent
  /\ INPUT_HOST = Absent
  /\ INPUT_WIDTH = Absent
  /\ INPUT_HEIGHT \in Heights
  /\ INPUT_WEBP_OPTIONS = Absent
  /\ INPUT_PNG_OPTIONS = Absent
  /\ INPUT_JPEG_OPTIONS = Absent
  /\ fileSystem = WorkspaceFiles
  /\ InitRun

\* the items "/a=x.png" and "b=d/y.jpg", whose destination is in a
\* directory that the workspace does not have
NestedItems ==
  { <<"/", "a", "=", "x", ".", "p", "n", "g">>,
    <<"b", "=", "d", "/", "y", ".", "j", "p", "g">> }

InitNested ==
  /\ SCREENSHOTS \in
       { join(c, <<",">>) : c \in UNION { [1..n -> NestedItems] : n \in 1..MaxTargets } }
  /\ INPUT_PORT = Absent
  /\ INPUT_HOST = Absent
  /\ INPUT_WIDTH = Absent
  /\ INPUT_HEIGHT = Absent
  /\ INPUT_WEBP_OPTIONS = Absent
  /\ INPUT_PNG_OPTIONS = Absent
  /\ INPUT_JPEG_OPTIONS = Absent
  /\ fileSystem = WorkspaceFiles
  /\ InitRun

\* runs of the default target over each workspace
InitWorkspaces ==
  /\ SCREENSHOTS = Absent
  /\ INPUT_PORT = Absent
  /\ INPUT_HOST = Absent
  /\ INPUT_WIDTH = Absent
  /\ INPUT_HEIGHT = Absent
  /\ INPUT_WEBP_OPTIONS = Absent
  /\ INPUT_PNG_OPTIONS = Absent
  /\ INPUT_JPEG_OPTIONS = Absent
  /\ fileSystem \in FileSystems
  /\ InitRun

\* the run with the default inputs at the point where createServer has
\* resolved and the server is listening, over each workspace
InitServer ==
  /\ SCREENSHOTS = Absent
  /\ INPUT_PORT = Absent
  /\ INPUT_HOST = Absent
  /\ INPUT_WIDTH = Absent
  /\ INPUT_HEIGHT = Absent
  /\ INPUT_WEBP_OPTIONS = Absent
  /\ INPUT_PNG_OPTIONS = Absent
  /\ INPUT_JPEG_OPTIONS = Absent
  /\ fileSystem \in FileSystems
  /\ NoUrlVariant
  /\ pc = "waitForServer"
  /\ screenshotPairs = parseScreenshots(Absent)
  /\ viewportWidth = parseInt(DefaultWidth)
  /\ viewportHeight = Null
  /\ webpOptions = defaultOptions.webp
  /\ pngOptions = defaultOptions.png
  /\ jpegOptions = defaultOptions.jpeg
  /\ server = "Server"
  /\ serverPort = parseInt(DefaultPort)
  /\ attempt = 1
  /\ serverStarts = 1
  /\ listen = << [root |-> workspacePath, port |-> parseInt(DefaultPort),
                  host |-> Undefined] >>
  /\ newPages = 0
  /\ viewportCalls = <<>>
  /\ calls = <<>>
  /\ i = 0
  /\ results = <<>>
  /\ exitCode = -1
  /\ serverCloses = 0
  /\ probeOk = FALSE
  /\ waitExhausted = FALSE
  /\ serverError = FALSE
  /\ browser = "null"
  /\ browserLaunches = 0
  /\ browserCloses = 0
  /\ navigations = <<>>
  /\ captures = <<>>
  /\ written = <<>>
  /\ outputs = <<>>
  /\ failedAt = 0
  /\ encoders = <<>>
  /\ mkdirError = "none"
  /\ request = Null
  /\ response = NoResponse

---------------------------------------------------------------------------
(* The steps of the IIFE *)

\* the state of the url/output variant, which this program does not have
urlVariant == <<INPUT_URL, INPUT_OUTPUT, urls, outputFiles, localPorts,
                servers, spawns, kills>>

env == <<SCREENSHOTS, INPUT_PORT, INPUT_HOST, INPUT_WIDTH, INPUT_HEIGHT,
         INPUT_WEBP_OPTIONS, INPUT_PNG_OPTIONS, INPUT_JPEG_OPTIONS>>
viewport == <<viewportWidth, viewportHeight>>
formatOptions == <<webpOptions, pngOptions, jpegOptions>>
requests == <<fileSystem, request, response>>
serverState == <<server, serverPort, attempt, serverStarts, listen,
                 serverCloses, probeOk, waitExhausted, serverError>>
browserState == <<browser, browserLaunches, browserCloses, newPages,
                  viewportCalls>>
pageLog == <<calls, navigations, captures, written, encoders>>

\* the same without the try block: the SyntaxError of JSON.parse ends the
\* process
ParseTargetsNoRecovery ==
  /\ pc = "parse"
  /\ screenshotPairs' = parseScreenshots(SCREENSHOTS)
  /\ viewportWidth' = parseInt(IF INPUT_WIDTH = Absent \/ INPUT_WIDTH = <<>>
                               THEN DefaultWidth ELSE INPUT_WIDTH)
  /\ viewportHeight' = parseHeight(INPUT_HEIGHT)
  /\ LET w == JSONparse(optionsText(INPUT_WEBP_OPTIONS, defaultOptions.webp))
         p == JSONparse(optionsText(INPUT_PNG_OPTIONS, defaultOptions.png))
         j == JSONparse(optionsText(INPUT_JPEG_OPTIONS, defaultOptions.jpeg))
     IN  IF w.ok /\ p.ok /\ j.ok
         THEN /\ webpOptions' = w.value
              /\ pngOptions' = p.value
              /\ jpegOptions' = j.value
              /\ pc' = "needsServer"
              /\ UNCHANGED exitCode
         ELSE /\ pc' = "exited"
              /\ exitCode' = 1
              /\ UNCHANGED formatOptions
  /\ UNCHANGED <<urlVariant, env, requests, mkdirError, serverState, browserState,
                 pageLog, i, results, outputs, failedAt>>

\* lines 113-141: the targets, the viewport, then the format options
ParseTargets ==
  /\ pc = "parse"
  /\ screenshotPairs' = parseScreenshots(SCREENSHOTS)
  /\ viewportWidth' = parseInt(IF INPUT_WIDTH = Absent \/ INPUT_WIDTH = <<>>
                               THEN DefaultWidth ELSE INPUT_WIDTH)
  /\ viewportHeight' = parseHeight(INPUT_HEIGHT)
  /\ LET options == parseFormatOptions(INPUT_WEBP_OPTIONS, INPUT_PNG_OPTIONS,
                                       INPUT_JPEG_OPTIONS)
     IN  /\ webpOptions' = options.webp
         /\ pngOptions' = options.png
         /\ jpegOptions' = options.jpeg
  /\ pc' = "needsServer"
  /\ UNCHANGED <<urlVariant, env, requests, mkdirError, serverState, browserState,
                 pageLog, i, results, exitCode, outputs, failedAt>>

\* lines 147-152
DecideServer ==
  /\ pc = "needsServer"
  /\ IF needsLocalServer(screenshotPairs)
     THEN /\ serverPort' = parseInt(IF INPUT_PORT = Absent \/ INPUT_PORT = <<>>
                                    THEN DefaultPort ELSE INPUT_PORT)
          /\ pc' = "createServer"
     ELSE /\ pc' = "launch"
          /\ UNCHANGED serverPort
  /\ UNCHANGED <<urlVariant, env, viewport, formatOptions, requests, mkdirError,
                 screenshotPairs, server, attempt, serverStarts,
                 listen, serverCloses, probeOk, waitExhausted, serverError,
                 browserState, pageLog, i, results, exitCode, outputs, failedAt>>

\* lines 154 and 71: createServer(workspacePath, serverPort) calls
\* server.listen(port, callback), with no host argument
listenArguments == [root |-> workspacePath, port |-> serverPort, host |-> Undefined]

\* lines 154 and 71-74: listen succeeded, the promise resolves to the server
CreateServerResolves ==
  /\ pc = "createServer"
  /\ serverStarts' = serverStarts + 1
  /\ listen' = Append(listen, listenArguments)
  /\ server' = "Server"
  /\ attempt' = 1
  /\ pc' = "waitForServer"
  /\ UNCHANGED <<urlVariant, env, viewport, formatOptions, requests, mkdirError,
                 screenshotPairs, serverPort, serverCloses,
                 probeOk, waitExhausted, serverError, browserState, pageLog,
                 i, results, exitCode, outputs, failedAt>>

CreateServerRejectsIgnored ==
  /\ pc = "createServer"
  /\ serverStarts' = serverStarts + 1
  /\ listen' = Append(listen, listenArguments)
  /\ serverError' = TRUE
  /\ pc' = "launch"
  /\ UNCHANGED <<urlVariant, env, viewport, formatOptions, requests, mkdirError,
                 screenshotPairs, server, serverPort, attempt,
                 serverCloses, probeOk, waitExhausted, browserState, pageLog,
                 i, results, exitCode, outputs, failedAt>>

\* lines 154, 70 and 156-158: the server emits 'error', the promise rejects,
\* the catch logs it and exits with status 1
CreateServerRejects ==
  /\ pc = "createServer"
  /\ serverStarts' = serverStarts + 1
  /\ listen' = Append(listen, listenArguments)
  /\ serverError' = TRUE
  /\ pc' = "exited"
  /\ exitCode' = 1
  /\ UNCHANGED <<urlVariant, env, viewport, formatOptions, requests, mkdirError,
                 screenshotPairs, server, serverPort, attempt,
                 serverCloses, probeOk, waitExhausted, browserState, pageLog,
                 i, results, outputs, failedAt>>

\* lines 84-86 and 40-62: what the server, which is listening in this
\* process, answers to the probe, a HEAD request for "/"
probeResponse == handleRequest(fileSystem, listen[Len(listen)].root, <<"/">>)

\* a probe that resolves on every response, whatever its status
ProbeResolvesAnyStatus ==
  /\ pc = "waitForServer"
  /\ attempt <= maxAttempts
  /\ request' = <<"/">>
  /\ response' = probeResponse
  /\ probeOk' = TRUE
  /\ attempt' = 0
  /\ pc' = "launch"
  /\ UNCHANGED <<urlVariant, env, viewport, formatOptions, fileSystem, mkdirError,
                 screenshotPairs, server, serverPort,
                 serverStarts, listen, serverCloses, waitExhausted, serverError,
                 browserState, pageLog, i, results, exitCode, outputs, failedAt>>

\* lines 86 and 92-96: the probe got a response with status below 400,
\* waitForServer returns true; the loop counter goes out of scope
ProbeResolves ==
  /\ pc = "waitForServer"
  /\ attempt <= maxAttempts
  /\ probeResponse.status < 400
  /\ request' = <<"/">>
  /\ response' = probeResponse
  /\ probeOk' = TRUE
  /\ attempt' = 0
  /\ pc' = "launch"
  /\ UNCHANGED <<urlVariant, env, viewport, formatOptions, fileSystem, mkdirError,
                 screenshotPairs, server, serverPort,
                 serverStarts, listen, serverCloses, waitExhausted, serverError,
                 browserState, pageLog, i, results, exitCode, outputs, failedAt>>

\* lines 86-87 and 97-100: the probe was answered with a status of 400 or
\* more, or the request emitted 'error' without a response
ProbeRejects(answered) ==
  /\ pc = "waitForServer"
  /\ attempt <= maxAttempts
  /\ IF answered
     THEN /\ probeResponse.status >= 400
          /\ request' = <<"/">>
          /\ response' = probeResponse
     ELSE UNCHANGED <<request, response>>
  /\ attempt' = attempt + 1
  /\ UNCHANGED <<urlVariant, env, viewport, formatOptions, fileSystem, mkdirError,
                 pc, screenshotPairs, server, serverPort,
                 serverStarts, listen, serverCloses, probeOk, waitExhausted,
                 serverError, browserState, pageLog, i, results, exitCode,
                 outputs, failedAt>>

\* lines 83-89 and 94: the server accepted the connection and sends no
\* response.  The timeout option of http.request makes the request emit
\* 'timeout', for which no listener is registered, and does not end the
\* request: neither resolve nor reject is ever called, and the await of
\* line 94 does not return
ProbeNeverSettles ==
  /\ pc = "waitForServer"
  /\ attempt <= maxAttempts
  /\ pc' = "checkServer"
  /\ UNCHANGED <<urlVariant, env, viewport, formatOptions, requests, mkdirError,
                 screenshotPairs, server, serverPort, attempt, serverStarts,
                 listen, serverCloses, probeOk, waitExhausted, serverError,
                 browserState, pageLog, i, results, exitCode, outputs,
                 failedAt>>

\* a loop that starts over when the attempts are used up
WaitForServerStartsOver ==
  /\ pc = "waitForServer"
  /\ attempt > maxAttempts
  /\ attempt' = 1
  /\ UNCHANGED <<urlVariant, env, viewport, formatOptions, requests, mkdirError, pc,
                 screenshotPairs, server, serverPort, serverStarts, listen,
                 serverCloses, probeOk, waitExhausted, serverError,
                 browserState, pageLog, i, results, exitCode, outputs,
                 failedAt>>

\* lines 103-104 and 155: waitForServer returns false, and the caller
\* does not look at what it returned
WaitForServerGivesUp ==
  /\ pc = "waitForServer"
  /\ attempt > maxAttempts
  /\ waitExhausted' = TRUE
  /\ attempt' = 0
  /\ pc' = "launch"
  /\ UNCHANGED <<urlVariant, env, viewport, formatOptions, requests, mkdirError,
                 screenshotPairs, server, serverPort,
                 serverStarts, listen, serverCloses, probeOk, serverError,
                 browserState, pageLog, i, results, exitCode, outputs, failedAt>>

---------------------------------------------------------------------------
(* The try block: browser, the loop over the targets, outputs *)

TargetSteps == {"goto", "settle", "prepare", "ensureDirectoryExists",
                "screenshot", "encode"}

\* a handler that logs the error of a target and goes on with the next one
CatchAndContinue ==
  /\ IF pc \in TargetSteps
     THEN pc' = "loop" /\ i' = i + 1 /\ UNCHANGED exitCode
     ELSE pc' = "exited" /\ exitCode' = 1 /\ UNCHANGED i
  /\ UNCHANGED fileSystem

\* a handler that removes the files the run has written before it exits
CatchRollsBack ==
  /\ pc' = "exited"
  /\ exitCode' = 1
  /\ fileSystem' = [fileSystem EXCEPT
                      !.files = @ \ { written[n][2] : n \in 1..Len(written) }]
  /\ UNCHANGED i

\* lines 217-219: the error is logged and process.exit(1) ends the process
\* at once, so that the finally block (lines 220-226) is not run
Catch ==
  /\ pc' = "exited"
  /\ exitCode' = 1
  /\ UNCHANGED <<i, fileSystem>>

\* line 164
Launch(ok) ==
  /\ pc = "launch"
  /\ browserLaunches' = browserLaunches + 1
  /\ browser' = IF ok THEN "Browser" ELSE browser
  /\ IF ok THEN pc' = "newPage" /\ UNCHANGED <<exitCode, i, fileSystem>> ELSE Catch
  /\ UNCHANGED <<urlVariant, env, viewport, formatOptions, request, response, mkdirError,
                 screenshotPairs, serverState, browserCloses,
                 newPages, viewportCalls, pageLog, results, outputs, failedAt>>

\* line 165
NewPage(ok) ==
  /\ pc = "newPage"
  /\ newPages' = newPages + 1
  /\ IF ok THEN pc' = "setViewportSize" /\ UNCHANGED <<exitCode, i, fileSystem>> ELSE Catch
  /\ UNCHANGED <<urlVariant, env, viewport, formatOptions, request, response, mkdirError,
                 screenshotPairs, serverState, browser,
                 browserLaunches, browserCloses, viewportCalls, pageLog,
                 results, outputs, failedAt>>

\* the same with the null test of ?? in place of the truth test of ||
viewportSizeNullish(w, h) ==
  [width |-> w, height |-> IF h # Null THEN h[1] ELSE DefaultHeight]

\* line 166: { width: viewportWidth, height: viewportHeight || 800 }
viewportSize(w, h) ==
  [width |-> w, height |-> IF truthy(h) THEN h[1] ELSE DefaultHeight]

\* the same, keeping the height that was set as the viewport height
SetViewportSizeStoresHeight(ok) ==
  /\ pc = "setViewportSize"
  /\ viewportCalls' = Append(viewportCalls, viewportSize(viewportWidth, viewportHeight))
  /\ viewportHeight' = <<viewportSize(viewportWidth, viewportHeight).height>>
  /\ IF ok THEN pc' = "loop" /\ i' = 1 /\ UNCHANGED <<exitCode, fileSystem>> ELSE Catch
  /\ UNCHANGED <<urlVariant, env, viewportWidth, formatOptions, request, response, mkdirError,
                 screenshotPairs, serverState, browser,
                 browserLaunches, browserCloses, newPages, pageLog, results,
                 outputs, failedAt>>

\* lines 166 and 206-207
SetViewportSize(ok) ==
  /\ pc = "setViewportSize"
  /\ viewportCalls' = Append(viewportCalls, viewportSize(viewportWidth, viewportHeight))
  /\ IF ok THEN pc' = "loop" /\ i' = 1 /\ UNCHANGED <<exitCode, fileSystem>> ELSE Catch
  /\ UNCHANGED <<urlVariant, env, viewport, formatOptions, request, response, mkdirError,
                 screenshotPairs, serverState, browser,
                 browserLaunches, browserCloses, newPages, pageLog, results,
                 outputs, failedAt>>

\* a loop that is followed by the closing of the browser
LoopTestClosesFirst ==
  /\ pc = "loop"
  /\ pc' = IF i <= Len(screenshotPairs) THEN "goto" ELSE "close"
  /\ UNCHANGED <<urlVariant, env, viewport, formatOptions, requests, mkdirError,
                 screenshotPairs, serverState, browserState,
                 pageLog, i, results, exitCode, outputs, failedAt>>

\* line 207: the loop condition
LoopTest ==
  /\ pc = "loop"
  /\ pc' = IF i <= Len(screenshotPairs) THEN "goto" ELSE "outputs"
  /\ UNCHANGED <<urlVariant, env, viewport, formatOptions, requests, mkdirError,
                 screenshotPairs, serverState, browserState,
                 pageLog, i, results, exitCode, outputs, failedAt>>

\* lines 171-178
Goto(ok) ==
  /\ pc = "goto"
  /\ LET url == targetUrl(screenshotPairs[i].urlPath, server, serverPort)
     IN  /\ navigations' = Append(navigations, <<i, url>>)
         /\ calls' = Append(calls, <<"goto", i, url>>)
  /\ IF ok
     THEN pc' = "settle" /\ UNCHANGED <<exitCode, i, failedAt, fileSystem>>
     ELSE failedAt' = i /\ Catch
  /\ UNCHANGED <<urlVariant, env, viewport, formatOptions, request, response, mkdirError,
                 screenshotPairs, serverState, browserState,
                 captures, written, encoders, results, outputs>>

\* line 179
Settle(ok) ==
  /\ pc = "settle"
  /\ calls' = Append(calls, <<"waitForTimeout", i, <<>>>>)
  /\ IF ok
     THEN pc' = "prepare" /\ UNCHANGED <<exitCode, i, failedAt, fileSystem>>
     ELSE failedAt' = i /\ Catch
  /\ UNCHANGED <<urlVariant, env, viewport, formatOptions, request, response, mkdirError,
                 screenshotPairs, serverState, browserState,
                 navigations, captures, written, encoders, results, outputs>>

\* lines 182-183 and 232: path.resolve throws a TypeError for an undefined
\* outputPath; else fs.mkdir(dirname, { recursive: true }) is called, and
\* resolves (the directory was created, or was there) or rejects with an
\* error code and creates nothing
PrepareOutputPath(mkdir) ==
  /\ pc = "prepare"
  /\ IF screenshotPairs[i].outputPath = Undefined
     THEN failedAt' = i /\ Catch /\ UNCHANGED <<calls, mkdirError>>
     ELSE /\ calls' = Append(calls,
                <<"mkdir", i,
                  dirname(pathResolve(workspacePath, screenshotPairs[i].outputPath))>>)
          /\ mkdirError' = mkdir
          /\ fileSystem' =
               IF mkdir = "none"
               THEN mkdirRecursive(fileSystem,
                      dirname(pathResolve(workspacePath, screenshotPairs[i].outputPath)))
               ELSE fileSystem
          /\ pc' = "ensureDirectoryExists"
          /\ UNCHANGED <<exitCode, i, failedAt>>
  /\ UNCHANGED <<urlVariant, env, viewport, formatOptions, request, response, screenshotPairs,
                 serverState, browserState, navigations, captures, written,
                 encoders, results, outputs>>

\* a handler that rethrows every error of fs.mkdir
ensureDirectoryExistsRethrowsAll ==
  /\ pc = "ensureDirectoryExists"
  /\ IF mkdirError = "none"
     THEN pc' = "screenshot" /\ UNCHANGED <<exitCode, i, failedAt, mkdirError, fileSystem>>
     ELSE failedAt' = i /\ Catch /\ UNCHANGED mkdirError
  /\ UNCHANGED <<urlVariant, env, viewport, formatOptions, request, response, screenshotPairs,
                 serverState, browserState, pageLog, results, outputs>>

\* lines 233-237: the handler of ensureDirectoryExists swallows EEXIST and
\* rethrows every other error; the caught error then goes out of scope
ensureDirectoryExists ==
  /\ pc = "ensureDirectoryExists"
  /\ IF mkdirError \in {"none", "EEXIST"}
     THEN /\ pc' = "screenshot"
          /\ mkdirError' = "none"
          /\ UNCHANGED <<exitCode, i, failedAt, fileSystem>>
     ELSE failedAt' = i /\ Catch /\ UNCHANGED mkdirError
  /\ UNCHANGED <<urlVariant, env, viewport, formatOptions, request, response, screenshotPairs,
                 serverState, browserState, pageLog, results, outputs>>

\* every capture is of the full page
screenshotOptionsFullPage(h) == [fullPage |-> TRUE]

\* line 186: { fullPage: !viewportHeight }
screenshotOptions(h) == [fullPage |-> ~truthy(h)]

\* the capture of a target whose write is started and not awaited
ScreenshotWriteNotAwaited(ok) ==
  /\ pc = "screenshot"
  /\ captures' = Append(captures, i)
  /\ calls' = Append(calls, <<"screenshot", i, screenshotOptions(viewportHeight)>>)
  /\ IF ok
     THEN pc' = "loop" /\ i' = i + 1 /\ UNCHANGED <<exitCode, failedAt, fileSystem>>
     ELSE failedAt' = i /\ Catch
  /\ UNCHANGED <<urlVariant, env, viewport, formatOptions, request, response, mkdirError,
                 screenshotPairs, serverState, browserState,
                 navigations, written, encoders, results, outputs>>

\* lines 186-187
Screenshot(ok) ==
  /\ pc = "screenshot"
  /\ captures' = Append(captures, i)
  /\ calls' = Append(calls, <<"screenshot", i, screenshotOptions(viewportHeight)>>)
  /\ IF ok
     THEN pc' = "encode" /\ UNCHANGED <<exitCode, i, failedAt, fileSystem>>
     ELSE failedAt' = i /\ Catch
  /\ UNCHANGED <<urlVariant, env, viewport, formatOptions, request, response, mkdirError,
                 screenshotPairs, serverState, browserState,
                 navigations, written, encoders, results, outputs>>

\* the same, returning outputPath in place of fullOutputPath
EncodeAndWriteReturnsOutputPath(ok) ==
  /\ pc = "encode"
  /\ LET outputPath == screenshotPairs[i].outputPath
         fullOutputPath == pathResolve(workspacePath, outputPath)
         ext == toLowerCase(extname(outputPath))
     IN  /\ encoders' = Append(encoders, <<i, encoderFor(ext),
                                          CASE encoderFor(ext) = "png" -> pngOptions
                                            [] encoderFor(ext) = "jpeg" -> jpegOptions
                                            [] OTHER -> webpOptions>>)
         /\ calls' = Append(calls, <<"toFile", i, <<encoderFor(ext), fullOutputPath>>>>)
         /\ IF ok
            THEN /\ isDirectory(fileSystem, dirname(fullOutputPath))
                 /\ fileSystem' = writeFile(fileSystem, fullOutputPath)
                 /\ written' = Append(written, <<i, fullOutputPath>>)
                 /\ results' = Append(results, outputPath)
                 /\ pc' = "loop"
                 /\ i' = i + 1
                 /\ UNCHANGED <<exitCode, failedAt>>
            ELSE /\ failedAt' = i
                 /\ Catch
                 /\ UNCHANGED <<written, results>>
  /\ UNCHANGED <<urlVariant, env, viewport, formatOptions, request, response, mkdirError,
                 screenshotPairs, serverState, browserState, navigations,
                 captures, outputs>>

\* lines 190-202 and 208: encode, write, and push the path on results; the
\* write resolves only where the directory of the file is there
EncodeAndWrite(ok) ==
  /\ pc = "encode"
  /\ LET outputPath == screenshotPairs[i].outputPath
         fullOutputPath == pathResolve(workspacePath, outputPath)
         ext == toLowerCase(extname(outputPath))
     IN  /\ encoders' = Append(encoders, <<i, encoderFor(ext),
                                          CASE encoderFor(ext) = "png" -> pngOptions
                                            [] encoderFor(ext) = "jpeg" -> jpegOptions
                                            [] OTHER -> webpOptions>>)
         /\ calls' = Append(calls, <<"toFile", i, <<encoderFor(ext), fullOutputPath>>>>)
         /\ IF ok
            THEN /\ isDirectory(fileSystem, dirname(fullOutputPath))
                 /\ fileSystem' = writeFile(fileSystem, fullOutputPath)
                 /\ written' = Append(written, <<i, fullOutputPath>>)
                 /\ results' = Append(results, fullOutputPath)
                 /\ pc' = "loop"
                 /\ i' = i + 1
                 /\ UNCHANGED <<exitCode, failedAt>>
            ELSE /\ failedAt' = i
                 /\ Catch
                 /\ UNCHANGED <<written, results>>
  /\ UNCHANGED <<urlVariant, env, viewport, formatOptions, request, response, mkdirError,
                 screenshotPairs, serverState, browserState, navigations,
                 captures, outputs>>

\* the outputs without the test of results.length
SetOutputsUnconditional ==
  /\ pc = "outputs"
  /\ outputs' = << <<"screenshot_paths", join(results, <<",">>)>>,
                   <<"screenshot_path",
                     IF Len(results) > 0 THEN results[1] ELSE Undefined>> >>
  /\ pc' = "close"
  /\ UNCHANGED <<urlVariant, env, viewport, formatOptions, requests, mkdirError,
                 screenshotPairs, serverState, browserState, pageLog, i,
                 results, exitCode, failedAt>>

\* lines 212-213
SetOutputs ==
  /\ pc = "outputs"
  /\ outputs' = << <<"screenshot_paths", join(results, <<",">>)>> >>
                \o (IF Len(results) > 0
                    THEN << <<"screenshot_path", results[1]>> >> ELSE <<>>)
  /\ pc' = "close"
  /\ UNCHANGED <<urlVariant, env, viewport, formatOptions, requests, mkdirError,
                 screenshotPairs, serverState, browserState,
                 pageLog, i, results, exitCode, failedAt>>

\* line 216
CloseBrowser(ok) ==
  /\ pc = "close"
  /\ browserCloses' = browserCloses + 1
  /\ IF ok THEN pc' = "finally" /\ UNCHANGED <<exitCode, i, fileSystem>> ELSE Catch
  /\ UNCHANGED <<urlVariant, env, viewport, formatOptions, request, response, mkdirError,
                 screenshotPairs, serverState, browser,
                 browserLaunches, newPages, viewportCalls, pageLog, results,
                 outputs, failedAt>>

\* lines 220-226, reached when the try block completed; the process then
\* ends with status 0
Finally ==
  /\ pc = "finally"
  /\ serverCloses' = IF server # "null" THEN serverCloses + 1 ELSE serverCloses
  /\ pc' = "done"
  /\ exitCode' = 0
  /\ UNCHANGED <<urlVariant, env, viewport, formatOptions, requests, mkdirError,
                 screenshotPairs, server, serverPort, attempt,
                 serverStarts, listen, probeOk, waitExhausted, serverError,
                 browserState, pageLog, i, results, outputs, failedAt>>

---------------------------------------------------------------------------
(* The local server, while it is listening *)

\* lines 40-68: the server handles one request
HandleRequest(url) ==
  /\ server # "null"
  /\ serverCloses = 0
  /\ request' = url
  /\ response' = handleRequest(fileSystem, listen[1].root, url)
  /\ UNCHANGED <<urlVariant, env, viewport, formatOptions, mkdirError, fileSystem, pc,
                 screenshotPairs, serverState, browserState, pageLog, i,
                 results, exitCode, outputs, failedAt>>

---------------------------------------------------------------------------
(* The url/output variant of the action, src/unnamed/part_003 lines 44-174:
   a list of URLs and a list of file names in place of SCREENSHOTS, and one
   "npx serve" process for each port of the local URLs *)

\* "http://localhost:5000"
DefaultUrl ==
  <<"h", "t", "t", "p", ":", "/", "/", "l", "o", "c", "a", "l", "h", "o", "s", "t",
    ":", "5", "0", "0", "0">>

\* "screenshot.webp"
DefaultOutput ==
  <<"s", "c", "r", "e", "e", "n", "s", "h", "o", "t", ".", "w", "e", "b", "p">>

DefaultLocalPort == 5000

includes(s, sub) ==
  \E k \in 1..(Len(s) - Len(sub) + 1) : SubSeq(s, k, k + Len(sub) - 1) = sub

\* lines 47-48: (text).split(',').map(u => u.trim())
splitAndTrim(text) ==
  LET parts == split(text, ",")
  IN  [k \in 1..Len(parts) |-> trim(parts[k])]

\* path.basename(p, ext)
basenameWithout(p, ext) ==
  LET b == basename(p)
  IN  IF /\ ext # <<>>
         /\ Len(b) > Len(ext)
         /\ SubSeq(b, Len(b) - Len(ext) + 1, Len(b)) = ext
      THEN SubSeq(b, 1, Len(b) - Len(ext))
      ELSE b

\* the name made from the first file name in place of the last one
nextOutputFileFromFirst(files) ==
  LET base == IF Len(files) > 0 THEN files[1] ELSE DefaultOutput
      ext == extname(base)
      baseName == basenameWithout(base, ext)
  IN  baseName \o <<"_">> \o numberToString(Len(files) + 1) \o ext

\* lines 66-69: the name that is pushed
nextOutputFile(files) ==
  LET base == IF Len(files) > 0 THEN files[Len(files)] ELSE DefaultOutput
      ext == extname(base)
      baseName == basenameWithout(base, ext)
  IN  baseName \o <<"_">> \o numberToString(Len(files) + 1) \o ext

\* lines 65-70: the loop
RECURSIVE fillOutputFiles(_, _)
fillOutputFiles(files, n) ==
  IF Len(files) < n
  THEN fillOutputFiles(Append(files, nextOutputFile(files)), n)
  ELSE files

RECURSIVE takeUntil(_, _)
takeUntil(s, stops) ==
  IF s = <<>> \/ Head(s) \in stops THEN <<>>
  ELSE <<Head(s)>> \o takeUntil(Tail(s), stops)

\* new URL(text) for a text in lower case: ok = FALSE where it throws, else
\* the port, which is empty when the text has none or has the port of its
\* scheme (80 for http, 443 for https)
parseURL(text) ==
  LET isHttps == startsWith(text, <<"h", "t", "t", "p", "s", ":", "/", "/">>)
      isHttp == startsWith(text, <<"h", "t", "t", "p", ":", "/", "/">>)
      rest == SubSeq(text, IF isHttps THEN 9 ELSE 8, Len(text))
      authority == split(takeUntil(rest, {"/", "?", "#"}), ":")
      portText == IF Len(authority) >= 2 THEN authority[2] ELSE <<>>
      schemePort == IF isHttps THEN <<"4", "4", "3">> ELSE <<"8", "0">>
  IN  IF \/ ~(isHttps \/ isHttp)
         \/ authority[1] = <<>>
         \/ Len(authority) > 2
         \/ \E k \in 1..Len(portText) : portText[k] \notin Digits
      THEN [ok |-> FALSE, port |-> <<>>]
      ELSE [ok |-> TRUE,
            port |-> IF portText = schemePort THEN <<>> ELSE portText]

\* lines 81-88: the port of a URL that has localhost or 127.0.0.1 in it
portOfLocalUrl(url) ==
  LET parsedUrl ==
        parseURL(IF startsWith(url, <<"h", "t", "t", "p">>)
                 THEN url ELSE <<"h", "t", "t", "p", ":", "/", "/">> \o url)
  IN  IF parsedUrl.ok /\ parsedUrl.port # <<>>
      THEN parseInt(parsedUrl.port)
      ELSE DefaultLocalPort

\* Set.prototype.add on the Set kept as the sequence of its insertions
setAdd(set, x) ==
  IF \E k \in 1..Len(set) : set[k] = x THEN set ELSE Append(set, x)

\* line 80
isLocalUrl(url) ==
  \/ includes(url, <<"l", "o", "c", "a", "l", "h", "o", "s", "t">>)
  \/ includes(url, <<"1", "2", "7", ".", "0", ".", "0", ".", "1">>)

\* lines 78-90
RECURSIVE collectLocalPorts(_, _)
collectLocalPorts(us, ports) ==
  IF us = <<>> THEN ports
  ELSE collectLocalPorts(Tail(us),
         IF isLocalUrl(Head(us)) THEN setAdd(ports, portOfLocalUrl(Head(us)))
         ELSE ports)

\* for (const port in servers): the integer keys in ascending order
RECURSIVE keysInOrder(_)
keysInOrder(S) ==
  IF S = {} THEN <<>>
  ELSE LET m == CHOOSE x \in S : \A y \in S : x <= y
       IN  <<m>> \o keysInOrder(S \ {m})

\* what the variant does not have
unusedByVariant == <<env, INPUT_URL, INPUT_OUTPUT, screenshotPairs, serverState,
                     request, response, mkdirError, calls, encoders>>

\* lines 47-90
UrlVariantParse ==
  /\ pc = "url.parse"
  /\ LET us == splitAndTrim(IF INPUT_URL = Absent \/ INPUT_URL = <<>>
                            THEN DefaultUrl ELSE INPUT_URL)
         files == splitAndTrim(IF INPUT_OUTPUT = Absent \/ INPUT_OUTPUT = <<>>
                               THEN DefaultOutput ELSE INPUT_OUTPUT)
         options == parseFormatOptions(INPUT_WEBP_OPTIONS, INPUT_PNG_OPTIONS,
                                       INPUT_JPEG_OPTIONS)
     IN  /\ urls' = us
         /\ outputFiles' = fillOutputFiles(files, Len(us))
         /\ localPorts' = collectLocalPorts(us, <<>>)
         /\ webpOptions' = options.webp
         /\ pngOptions' = options.png
         /\ jpegOptions' = options.jpeg
  /\ viewportWidth' = parseInt(IF INPUT_WIDTH = Absent \/ INPUT_WIDTH = <<>>
                               THEN DefaultWidth ELSE INPUT_WIDTH)
  /\ viewportHeight' = parseHeight(INPUT_HEIGHT)
  /\ pc' = "url.servers"
  /\ UNCHANGED <<unusedByVariant, fileSystem, servers, spawns, kills,
                 browserState, navigations, captures, written, i, results,
                 exitCode, outputs, failedAt>>

\* lines 93-96: the process of the next port is spawned, and waitForServer
\* has returned, with a value that is not looked at
UrlVariantStartServer ==
  /\ pc = "url.servers"
  /\ Len(spawns) < Len(localPorts)
  /\ LET port == localPorts[Len(spawns) + 1]
     IN  /\ spawns' = Append(spawns, port)
         /\ servers' = servers \cup {port}
  /\ UNCHANGED <<unusedByVariant, fileSystem, urls, outputFiles, localPorts,
                 kills, pc, viewport, formatOptions, browserState,
                 navigations, captures, written, i, results, exitCode,
                 outputs, failedAt>>

\* lines 159-161: process.exit(1) in the catch, which ends the process
\* before the finally block
UrlVariantCatch ==
  /\ pc' = "exited"
  /\ exitCode' = 1

\* lines 101-108: launch, newPage and setViewportSize, each of which may
\* reject
UrlVariantOpenPage(failing) ==
  /\ pc = "url.servers"
  /\ Len(spawns) = Len(localPorts)
  /\ browserLaunches' = browserLaunches + 1
  /\ browser' = IF failing = "launch" THEN browser ELSE "Browser"
  /\ newPages' = IF failing = "launch" THEN newPages ELSE newPages + 1
  /\ viewportCalls' =
       IF failing \in {"launch", "newPage"} THEN viewportCalls
       ELSE Append(viewportCalls, viewportSize(viewportWidth, viewportHeight))
  /\ IF failing = "none"
     THEN pc' = "url.loop" /\ i' = 1 /\ UNCHANGED exitCode
     ELSE UrlVariantCatch /\ UNCHANGED i
  /\ UNCHANGED <<unusedByVariant, fileSystem, urls, outputFiles, localPorts,
                 servers, spawns, kills, viewport, formatOptions,
                 browserCloses, navigations, captures, written, results,
                 outputs, failedAt>>

\* lines 110-152: one URL is navigated to, captured and written, unless one
\* of the awaited calls rejects
UrlVariantCapture(failing) ==
  /\ pc = "url.loop"
  /\ i <= Len(urls)
  /\ navigations' = Append(navigations, <<i, urls[i]>>)
  /\ captures' = IF failing \in {"none", "toFile"} THEN Append(captures, i)
                 ELSE captures
  /\ LET outputPath == pathResolve(workspacePath, outputFiles[i])
     IN  IF failing = "none"
         THEN /\ isDirectory(fileSystem, dirname(outputPath))
              /\ fileSystem' = writeFile(fileSystem, outputPath)
              /\ written' = Append(written, <<i, outputPath>>)
              /\ results' = Append(results, outputPath)
              /\ i' = i + 1
              /\ UNCHANGED <<pc, exitCode, failedAt>>
         ELSE /\ failedAt' = i
              /\ UrlVariantCatch
              /\ UNCHANGED <<fileSystem, written, results, i>>
  /\ UNCHANGED <<unusedByVariant, urls, outputFiles, localPorts, servers,
                 spawns, kills, viewport, formatOptions, browserState,
                 outputs>>

\* lines 154-155
UrlVariantOutputs ==
  /\ pc = "url.loop"
  /\ i > Len(urls)
  /\ outputs' = << <<"screenshot_paths", join(results, <<",">>)>> >>
                \o (IF Len(results) > 0
                    THEN << <<"screenshot_path", results[1]>> >> ELSE <<>>)
  /\ pc' = "url.close"
  /\ UNCHANGED <<unusedByVariant, fileSystem, urls, outputFiles, localPorts,
                 servers, spawns, kills, viewport, formatOptions,
                 browserState, navigations, captures, written, i, results,
                 exitCode, failedAt>>

\* line 158
UrlVariantClose(ok) ==
  /\ pc = "url.close"
  /\ browserCloses' = browserCloses + 1
  /\ IF ok THEN pc' = "url.finally" /\ UNCHANGED exitCode ELSE UrlVariantCatch
  /\ UNCHANGED <<unusedByVariant, fileSystem, urls, outputFiles, localPorts,
                 servers, spawns, kills, viewport, formatOptions, browser,
                 browserLaunches, newPages, viewportCalls, navigations,
                 captures, written, i, results, outputs, failedAt>>

\* lines 162-173, reached when the try block completed: every process of
\* the servers object is killed; the process then ends with status 0
UrlVariantFinally ==
  /\ pc = "url.finally"
  /\ kills' = kills \o keysInOrder(servers)
  /\ pc' = "done"
  /\ exitCode' = 0
  /\ UNCHANGED <<unusedByVariant, fileSystem, urls, outputFiles, localPorts,
                 servers, spawns, viewport, formatOptions, browserState,
                 navigations, captures, written, i, results, outputs,
                 failedAt>>

UrlVariantNext ==
  \/ UrlVariantParse
  \/ UrlVariantStartServer
  \/ \E failing \in {"none", "launch", "newPage", "setViewportSize"} :
       UrlVariantOpenPage(failing)
  \/ \E failing \in {"none", "goto", "waitForTimeout", "screenshot", "toFile"} :
       UrlVariantCapture(failing)
  \/ UrlVariantOutputs
  \/ \E ok \in BOOLEAN : UrlVariantClose(ok)
  \/ UrlVariantFinally

\* the state in which the variant starts, but for its two inputs
InitUrlVariantRun ==
  /\ SCREENSHOTS = Absent
  /\ INPUT_PORT = Absent
  /\ INPUT_HOST = Absent
  /\ INPUT_WIDTH = Absent
  /\ INPUT_HEIGHT = Absent
  /\ INPUT_WEBP_OPTIONS = Absent
  /\ INPUT_PNG_OPTIONS = Absent
  /\ INPUT_JPEG_OPTIONS = Absent
  /\ fileSystem = WorkspaceFiles
  /\ pc = "url.parse"
  /\ urls = <<>>
  /\ outputFiles = <<>>
  /\ localPorts = <<>>
  /\ servers = {}
  /\ spawns = <<>>
  /\ kills = <<>>
  /\ screenshotPairs = <<>>
  /\ viewportWidth = 0
  /\ viewportHeight = Null
  /\ webpOptions = Undefined
  /\ pngOptions = Undefined
  /\ jpegOptions = Undefined
  /\ server = "null"
  /\ serverPort = 0
  /\ attempt = 0
  /\ serverStarts = 0
  /\ listen = <<>>
  /\ serverCloses = 0
  /\ probeOk = FALSE
  /\ waitExhausted = FALSE
  /\ serverError = FALSE
  /\ browser = "null"
  /\ browserLaunches = 0
  /\ browserCloses = 0
  /\ newPages = 0
  /\ viewportCalls = <<>>
  /\ calls = <<>>
  /\ navigations = <<>>
  /\ captures = <<>>
  /\ written = <<>>
  /\ encoders = <<>>
  /\ mkdirError = "none"
  /\ request = Null
  /\ response = NoResponse
  /\ i = 0
  /\ results = <<>>
  /\ exitCode = -1
  /\ outputs = <<>>
  /\ failedAt = 0

\* the URLs of the runs: "http://localhost:8080", "http://localhost",
\* "127.0.0.1:9000", "http://localhost:8080/a", "http://example.com",
\* "http://e.com/localhost" and "http://localhost:80"
UrlItems ==
  { <<"h", "t", "t", "p", ":", "/", "/", "l", "o", "c", "a", "l", "h", "o", "s", "t",
      ":", "8", "0", "8", "0">>,
    <<"h", "t", "t", "p", ":", "/", "/", "l", "o", "c", "a", "l", "h", "o", "s", "t">>,
    <<"1", "2", "7", ".", "0", ".", "0", ".", "1", ":", "9", "0", "0", "0">>,
    <<"h", "t", "t", "p", ":", "/", "/", "l", "o", "c", "a", "l", "h", "o", "s", "t",
      ":", "8", "0", "8", "0", "/", "a">>,
    <<"h", "t", "t", "p", ":", "/", "/", "e", "x", "a", "m", "p", "l", "e", ".", "c",
      "o", "m">>,
    <<"h", "t", "t", "p", ":", "/", "/", "e", ".", "c", "o", "m", "/", "l", "o", "c",
      "a", "l", "h", "o", "s", "t">>,
    <<"h", "t", "t", "p", ":", "/", "/", "l", "o", "c", "a", "l", "h", "o", "s", "t",
      ":", "8", "0">> }

\* runs of up to MaxTargets URLs, and of no INPUT_URL, with the default
\* file name
InitUrlVariant ==
  /\ INPUT_URL \in
       {Absent} \cup
       { join(c, <<",">>) : c \in UNION { [1..n -> UrlItems] : n \in 1..MaxTargets } }
  /\ INPUT_OUTPUT = Absent
  /\ InitUrlVariantRun

\* the file names of the runs: "output1.png", "a.webp", "d/c.jpg" and "n"
OutputItems ==
  { <<"o", "u", "t", "p", "u", "t", "1", ".", "p", "n", "g">>,
    <<"a", ".", "w", "e", "b", "p">>,
    <<"d", "/", "c", ".", "j", "p", "g">>,
    <<"n">> }

\* 1 to MaxTargets + 1 URLs "u" with no file name and with up to
\* MaxTargets file names
InitOutputFiles ==
  /\ INPUT_URL \in
       { join([k \in 1..n |-> <<"u">>], <<",">>) : n \in 1..(MaxTargets + 1) }
  /\ INPUT_OUTPUT \in
       {Absent} \cup
       { join(c, <<",">>) : c \in UNION { [1..n -> OutputItems] : n \in 1..MaxTargets } }
  /\ InitUrlVariantRun

---------------------------------------------------------------------------
(* Specifications *)

Next ==
  \/ ParseTargets
  \/ DecideServer
  \/ CreateServerResolves
  \/ CreateServerRejects
  \/ ProbeResolves
  \/ \E answered \in BOOLEAN : ProbeRejects(answered)
  \/ ProbeNeverSettles
  \/ WaitForServerGivesUp
  \/ \E ok \in BOOLEAN : Launch(ok)
  \/ \E ok \in BOOLEAN : NewPage(ok)
  \/ \E ok \in BOOLEAN : SetViewportSize(ok)
  \/ LoopTest
  \/ \E ok \in BOOLEAN : Goto(ok)
  \/ \E ok \in BOOLEAN : Settle(ok)
  \/ \E mkdir \in {"none", "EEXIST", "EACCES"} : PrepareOutputPath(mkdir)
  \/ ensureDirectoryExists
  \/ \E ok \in BOOLEAN : Screenshot(ok)
  \/ \E ok \in BOOLEAN : EncodeAndWrite(ok)
  \/ SetOutputs
  \/ \E ok \in BOOLEAN : CloseBrowser(ok)
  \/ Finally

Spec == Init /\ [][Next]_vars

\* the parser alone, on every short string
ParserSpec == InitParser /\ [][ParseTargets]_vars

\* the runs of one target over the destinations and the format options
DestinationSpec == InitDestinations /\ [][Next]_vars

\* the request handler alone, on every workspace and request
ServerSpec == InitServer /\ [][\E url \in RequestUrls : HandleRequest(url)]_vars

\* the runs with the default inputs but for SCREENSHOTS
TargetsSpec == InitTargets /\ [][Next]_vars

\* the runs over the heights
ViewportSpec == InitViewport /\ [][Next]_vars

\* the runs whose destinations are in a directory to be created
NestedSpec == InitNested /\ [][Next]_vars

\* the runs of the default target over the workspaces
WorkspaceSpec == InitWorkspaces /\ [][Next]_vars

\* the runs under the scheduling of Node: the synchronous code of lines
\* 108-143 runs to its end (the step from "parse" to "needsServer", which
\* is ParseTargets), and from then on a step that is possible is taken: the
\* event loop runs the continuation of an awaited call that has settled
LiveSpec ==
  /\ InitShort
  /\ [][Next]_vars
  /\ WF_pc(pc = "parse" /\ pc' = "needsServer")
  /\ WF_vars(pc # "parse" /\ Next)

\* the url/output variant
UrlVariantSpec == InitUrlVariant /\ [][UrlVariantNext]_vars

\* the parsing of the url/output variant alone, over the file names
OutputFilesSpec == InitOutputFiles /\ [][UrlVariantParse]_vars

Terminated == pc \in {"done", "exited"}

---------------------------------------------------------------------------
(* Properties *)

\* a source that begins with http:// or https://, compared without case
BeginsWithScheme(u) ==
  \E p \in { <<"h", "t", "t", "p", ":", "/", "/">>,
             <<"h", "t", "t", "p", "s", ":", "/", "/">> } :
    /\ Len(u) >= Len(p)
    /\ \A k \in 1..Len(p) : toLowerChar(u[k]) = p[k]

RelativeTargets == { k \in 1..Len(screenshotPairs) :
                       ~BeginsWithScheme(screenshotPairs[k].urlPath) }

\* C1: a run in which the local server was started ends with server.close()
\* called exactly once, on the success path and on every failure path.
ServerStoppedOnEveryExit ==
  (Terminated /\ server # "null") => serverCloses = 1

\* C2: a run in which the browser was launched ends with browser.close()
\* called exactly once, after the last target or after the first error.
BrowserClosedOnEveryExit ==
  (Terminated /\ browser # "null") => browserCloses = 1

\* C3: once a step of target k has failed, the run has ended with status 1,
\* nothing was navigated, captured or written for a target after k, target k
\* was navigated and captured at most once and was not written.
AbortOnTargetFailure ==
  failedAt # 0 =>
    /\ pc = "exited" /\ exitCode = 1
    /\ ~ENABLED Next
    /\ \A n \in 1..Len(navigations) : navigations[n][1] <= failedAt
    /\ \A n \in 1..Len(captures) : captures[n] <= failedAt
    /\ \A n \in 1..Len(written) : written[n][1] < failedAt
    /\ Cardinality({n \in 1..Len(navigations) : navigations[n][1] = failedAt}) = 1
    /\ Cardinality({n \in 1..Len(captures) : captures[n] = failedAt}) <= 1

\* the navigation of the second of three targets failed
SecondOfThreeFailed ==
  /\ Len(screenshotPairs) = 3
  /\ failedAt = 2
  /\ Len(navigations) = 2
  /\ captures = <<1>>
  /\ pc = "exited"

\* C4: the run ends with status 0 exactly when every target was navigated,
\* captured and written without error, and every fatal error (server start,
\* server never ready, navigation, capture, encode/write) gives a non-zero
\* status.
ExitZeroIffAllTargetsDone ==
  Terminated =>
    /\ exitCode = 0 <=> (failedAt = 0 /\ Len(written) = Len(screenshotPairs))
    /\ (serverError \/ waitExhausted \/ failedAt # 0) => exitCode # 0

\* C5: a run that ends with a failure status has emitted neither
\* screenshot_paths nor screenshot_path.
NoOutputsOnFailure ==
  (Terminated /\ exitCode # 0) => outputs = <<>>

\* C6: createServer is called exactly once when some target's source is
\* not an absolute URL, whatever the number of such targets, and never when
\* every source is absolute.
ServerStartsOnceIffRelative ==
  /\ serverStarts <= 1
  /\ pc \notin {"parse", "needsServer", "createServer"} =>
       serverStarts = IF RelativeTargets # {} THEN 1 ELSE 0

\* a finished run of three targets, two of them relative, with one start
OneStartForTwoRelative ==
  /\ pc = "done"
  /\ Len(screenshotPairs) = 3
  /\ Cardinality(RelativeTargets) = 2
  /\ serverStarts = 1

\* C7: when a local server is required, no page.goto happens before a
\* readiness probe has succeeded.
NoNavigationBeforeReady ==
  (RelativeTargets # {} /\ navigations # <<>>) => probeOk

\* C8: when no readiness probe succeeds within maxAttempts, the run fails
\* with status 1 and no target is navigated or captured.
FailsWhenNeverReady ==
  waitExhausted =>
    /\ navigations = <<>>
    /\ captures = <<>>
    /\ Terminated => exitCode = 1

\* C9: when createServer rejects, the run ends with status 1 before any
\* browser launch, navigation, capture or write.
ServerStartFailureBeforeBrowser ==
  serverError =>
    /\ pc = "exited" /\ exitCode = 1
    /\ browserLaunches = 0
    /\ navigations = <<>> /\ captures = <<>> /\ written = <<>>

\* createServer rejected in a run that needed the server
ServerStartFailed ==
  /\ serverError
  /\ serverStarts = 1
  /\ RelativeTargets # {}
  /\ pc = "exited"

\* the items of a configuration string: split on commas and newlines,
\* trimmed, the empty ones dropped
RECURSIVE SplitOnAny(_, _, _)
SplitOnAny(s, seps, cur) ==
  IF s = <<>> THEN <<cur>>
  ELSE IF Head(s) \in seps THEN <<cur>> \o SplitOnAny(Tail(s), seps, <<>>)
  ELSE SplitOnAny(Tail(s), seps, Append(cur, Head(s)))

NonEmptyItems(s) ==
  LET segs == SplitOnAny(s, {",", "\n"}, <<>>)
  IN  SelectSeq([k \in 1..Len(segs) |-> trim(segs[k])], Boolean)

\* C10: the parser returns one target per non-empty item (after splitting
\* on commas and newlines and trimming), in the order of the items.
ParserKeepsCountAndOrder ==
  pc = "needsServer" =>
    LET input == IF SCREENSHOTS = Absent \/ SCREENSHOTS = <<>>
                 THEN DefaultScreenshots ELSE SCREENSHOTS
        expected == NonEmptyItems(input)
    IN  /\ Len(screenshotPairs) = Len(expected)
        /\ \A k \in 1..Len(expected) :
             screenshotPairs[k].urlPath = trim(split(expected[k], "=")[1])

---------------------------------------------------------------------------
(* Properties of the parser's edge cases, the URLs, the server's address,
   the order of the steps and the viewport *)

\* the configuration string the parser works on
EffectiveScreenshots ==
  IF SCREENSHOTS = Absent \/ SCREENSHOTS = <<>> THEN DefaultScreenshots ELSE SCREENSHOTS

\* C11: every half of every target is trimmed, and an item that is empty
\* after trimming gives no target (the items being those between commas).
ParserTrimsAndDropsBlankItems ==
  pc = "needsServer" =>
    LET segs == split(EffectiveScreenshots, ",")
        kept == SelectSeq([k \in 1..Len(segs) |-> trim(segs[k])], Boolean)
    IN  /\ Len(screenshotPairs) = Len(kept)
        /\ \A k \in 1..Len(screenshotPairs) :
             /\ screenshotPairs[k].urlPath = trim(screenshotPairs[k].urlPath)
             /\ screenshotPairs[k].outputPath = trim(screenshotPairs[k].outputPath)

\* C12: a run whose target list is empty ends with a failure status.
EmptyTargetListFails ==
  (Terminated /\ screenshotPairs = <<>>) => exitCode # 0

MissingSeparator ==
  \E k \in 1..Len(screenshotPairs) : screenshotPairs[k].outputPath = Undefined

\* C13: when an item lacks "=", no server is started, no browser is
\* launched and no target is navigated or written.
MissingSeparatorFailsAtParse ==
  MissingSeparator =>
    /\ serverStarts = 0
    /\ browserLaunches = 0
    /\ navigations = <<>>
    /\ written = <<>>

ToFileCalls == SelectSeq(calls, LAMBDA c : c[1] = "toFile")

ScreenshotCalls == SelectSeq(calls, LAMBDA c : c[1] = "screenshot")

\* C14: with SCREENSHOTS unset the one target is "/" -> "screenshot.webp";
\* a finished run has started one server (on port 3000 when no port is
\* configured), navigated once, to http://localhost:3000/, and written one
\* WebP file, <workspace>/screenshot.webp.
DefaultMappingRun ==
  SCREENSHOTS = Absent =>
    /\ pc # "parse" =>
         screenshotPairs =
           << [urlPath |-> <<"/">>,
               outputPath |-> <<"s", "c", "r", "e", "e", "n", "s", "h", "o", "t",
                                ".", "w", "e", "b", "p">>] >>
    /\ pc = "done" =>
         /\ serverStarts = 1
         /\ Len(navigations) = 1
         /\ INPUT_PORT = Absent =>
              /\ listen[1].port = 3000
              /\ navigations[1][2] =
                   <<"h", "t", "t", "p", ":", "/", "/", "l", "o", "c", "a", "l",
                     "h", "o", "s", "t", ":", "3", "0", "0", "0", "/">>
         /\ ToFileCalls =
              << <<"toFile", 1,
                   <<"webp", workspacePath \o <<"/", "s", "c", "r", "e", "e", "n", "s",
                                               "h", "o", "t", ".", "w", "e", "b", "p">> >> >> >>
         /\ Len(written) = 1

DefaultMappingRunDone ==
  SCREENSHOTS = Absent /\ INPUT_PORT = Absent /\ pc = "done"

\* the configured value of a numeric input, or its default
ConfiguredNumber(text, default) ==
  CASE text = Absent -> default
    [] text = <<"4", "3", "2", "1">> -> 4321
    [] text = <<"6", "4", "0">> -> 640
    [] text = <<"9", "0", "0">> -> 900
    [] text = <<"0">> -> 0

ConfiguredPortText == IF INPUT_PORT = Absent THEN <<"3", "0", "0", "0">> ELSE INPUT_PORT

LocalOrigin ==
  <<"h", "t", "t", "p", ":", "/", "/", "l", "o", "c", "a", "l", "h", "o", "s", "t", ":">>
    \o ConfiguredPortText

\* C15: an absolute source is navigated to unchanged; any other source s is
\* navigated to as http://localhost:<port>/s, with one slash between the
\* port and a source that has none, and the source's own slash otherwise.
NavigatedUrlIsRewritten ==
  \A n \in 1..Len(navigations) :
    LET src == screenshotPairs[navigations[n][1]].urlPath
        url == navigations[n][2]
    IN  IF BeginsWithScheme(src) THEN url = src
        ELSE /\ url # src
             /\ url = LocalOrigin \o (IF src # <<>> /\ src[1] = "/" THEN src
                                      ELSE <<"/">> \o src)

\* a source without a leading slash and an absolute one were navigated to
NavigatedSlashlessAndAbsolute ==
  /\ \E n \in 1..Len(navigations) :
       screenshotPairs[navigations[n][1]].urlPath = <<"b">>
  /\ \E n \in 1..Len(navigations) :
       BeginsWithScheme(screenshotPairs[navigations[n][1]].urlPath)

\* C16: the port in the URL of every relative target is the port the
\* server was started on, which is INPUT_PORT, or 3000 when it is not set.
RewrittenPortIsServerPort ==
  /\ \A k \in 1..Len(listen) : listen[k].port = ConfiguredNumber(INPUT_PORT, 3000)
  /\ \A n \in 1..Len(navigations) :
       ~BeginsWithScheme(screenshotPairs[navigations[n][1]].urlPath) =>
         /\ Len(listen) = 1
         /\ startsWith(navigations[n][2], LocalOrigin \o <<"/">>)
         /\ parseInt(ConfiguredPortText) = listen[1].port

RelativeNavigatedOnConfiguredPort ==
  /\ INPUT_PORT = <<"4", "3", "2", "1">>
  /\ \E n \in 1..Len(navigations) :
       ~BeginsWithScheme(screenshotPairs[navigations[n][1]].urlPath)

\* C17: a started server listens on the configured host, or on all
\* interfaces when none is configured (the host argument left out), on
\* the configured port, and serves the workspace directory.
ServerBoundAsConfigured ==
  \A k \in 1..Len(listen) :
    /\ listen[k].root = workspacePath
    /\ listen[k].port = ConfiguredNumber(INPUT_PORT, 3000)
    /\ listen[k].host = IF INPUT_HOST = Absent THEN Undefined ELSE INPUT_HOST

StepOrder == <<"goto", "waitForTimeout", "mkdir", "screenshot", "toFile">>

\* C18: the calls of a run are, in this order, the steps of target 1, then
\* those of target 2, and so on: no call for target N+1 precedes the write
\* of target N, and target N+1 is navigated only when N's write completed.
SequentialInInputOrder ==
  /\ \A n \in 1..Len(calls) :
       /\ calls[n][1] = StepOrder[((n - 1) % 5) + 1]
       /\ calls[n][2] = ((n - 1) \div 5) + 1
  /\ Len(navigations) <= Len(written) + 1
  /\ Len(captures) <= Len(written) + 1

ThreeTargetsProcessed ==
  pc = "done" /\ Len(calls) = 15 /\ Len(written) = 3

ConfiguredHeight == ConfiguredNumber(INPUT_HEIGHT, 0)

---------------------------------------------------------------------------
(* Properties of the encoders, the format options, the results, the
   outputs, the destination paths, the local server and termination *)

\* p ends with the suffix suf, compared without case
EndsWithNoCase(p, suf) ==
  /\ Len(p) >= Len(suf)
  /\ \A k \in 1..Len(suf) : toLowerChar(p[Len(p) - Len(suf) + k]) = suf[k]

\* the format of a destination: PNG for .png, JPEG for .jpg and .jpeg,
\* WebP for everything else
FormatOf(dest) ==
  IF EndsWithNoCase(dest, <<".", "p", "n", "g">>) THEN "png"
  ELSE IF \/ EndsWithNoCase(dest, <<".", "j", "p", "g">>)
          \/ EndsWithNoCase(dest, <<".", "j", "p", "e", "g">>) THEN "jpeg"
  ELSE "webp"

OptionsOf(format) ==
  CASE format = "png" -> pngOptions
    [] format = "jpeg" -> jpegOptions
    [] format = "webp" -> webpOptions

\* C21: every encoder call of a run is for the format of the target's
\* destination (.png: PNG, .jpg and .jpeg: JPEG, anything else: WebP, the
\* extension compared without case) with the options of that format, and
\* every target written had exactly one encoder call.
EncoderChosenByExtension ==
  /\ \A n \in 1..Len(encoders) :
       LET format == FormatOf(screenshotPairs[encoders[n][1]].outputPath)
       IN  /\ encoders[n][2] = format
           /\ encoders[n][3] = OptionsOf(format)
  /\ \A n \in 1..Len(written) :
       Cardinality({m \in 1..Len(encoders) : encoders[m][1] = written[n][1]}) = 1
  /\ Len(encoders) <= Len(written) + 1

\* the destination o.JPEG was written by the JPEG encoder
UpperCaseJpegWritten ==
  /\ pc = "done"
  /\ screenshotPairs[1].outputPath = <<"o", ".", "J", "P", "E", "G">>
  /\ Len(written) = 1
  /\ encoders[1][2] = "jpeg"

Quality == <<"q", "u", "a", "l", "i", "t", "y">>

\* the documented defaults: webp {lossless: true, quality: 100, effort: 6},
\* png {quality: 100}, jpeg {quality: 90}
DocumentedDefault(format) ==
  CASE format = "webp" ->
         << <<<<"l", "o", "s", "s", "l", "e", "s", "s">>, <<"boolean", 1>>>>,
            <<Quality, <<"number", 100>>>>,
            <<<<"e", "f", "f", "o", "r", "t">>, <<"number", 6>>>> >>
    [] format = "png" -> << <<Quality, <<"number", 100>>>> >>
    [] format = "jpeg" -> << <<Quality, <<"number", 90>>>> >>

\* the object a well-formed options text of the runs stands for
ConfiguredObject(format) ==
  CASE format = "webp" ->
         << <<Quality, <<"number", 80>>>>,
            <<<<"e", "f", "f", "o", "r", "t">>, <<"number", 4>>>> >>
    [] format = "png" -> << <<Quality, <<"number", 95>>>> >>
    [] format = "jpeg" ->
         << <<Quality, <<"number", 85>>>>,
            <<<<"p", "r", "o", "g", "r", "e", "s", "s", "i", "v", "e">>,
              <<"boolean", 1>>>> >>

OptionsInput(format) ==
  CASE format = "webp" -> INPUT_WEBP_OPTIONS
    [] format = "png" -> INPUT_PNG_OPTIONS
    [] format = "jpeg" -> INPUT_JPEG_OPTIONS

Formats == {"webp", "png", "jpeg"}

Malformed(format) ==
  OptionsInput(format) = <<"{", "i", "n", "v", "a", "l", "i", "d", " ",
                           "j", "s", "o", "n", "}">>

\* the options a format has when it is taken by itself: its default when
\* its input is absent or malformed, else what the user configured
OptionsTakenAlone(format) ==
  IF OptionsInput(format) = Absent \/ Malformed(format)
  THEN DocumentedDefault(format) ELSE ConfiguredObject(format)

\* C22: when the options JSON of exactly one format is malformed, that
\* format has its documented default and the other two formats have the
\* options the user configured for them.
OnlyMalformedFormatDefaults ==
  (pc # "parse" /\ Cardinality({f \in Formats : Malformed(f)}) = 1) =>
    \A f \in Formats : OptionsOf(f) = OptionsTakenAlone(f)

\* C23: a run with malformed format options is not ended by them: every
\* malformed format has its documented default once the options are
\* parsed, and a run that ended with a failure status got as far as
\* starting the server or launching the browser.
MalformedOptionsRecovered ==
  (pc # "parse" /\ \E f \in Formats : Malformed(f)) =>
    /\ pc # "exited" \/ serverStarts > 0 \/ browserLaunches > 0
    /\ \A f \in Formats : Malformed(f) => OptionsOf(f) = DocumentedDefault(f)

\* a run with malformed PNG options that wrote its PNG target
MalformedOptionsRunDone ==
  /\ pc = "done"
  /\ Malformed("png")
  /\ Len(written) = 1
  /\ encoders = << <<1, "png", DocumentedDefault("png")>> >>

\* the destination of target k as an absolute path: itself when it begins
\* with "/", else <workspace>/destination
AbsoluteDestination(k) ==
  LET d == screenshotPairs[k].outputPath
  IN  IF d[1] = "/" THEN d ELSE <<"/", "w", "/">> \o d

\* C24: at every point of a run, results holds one entry for each target
\* whose write has completed, in input order, which is the absolute path of
\* the target's destination; in a run that succeeded there is one per target.
ResultsAreWrittenPaths ==
  /\ Len(results) = Len(written)
  /\ \A k \in 1..Len(results) :
       /\ written[k][1] = k
       /\ results[k] = written[k][2]
       /\ results[k] = AbsoluteDestination(k)
  /\ (pc = "done" /\ exitCode = 0) => Len(results) = Len(screenshotPairs)

\* a run of three targets that succeeded
ThreeResults ==
  pc = "done" /\ Len(screenshotPairs) = 3 /\ Len(results) = 3

\* the absolute destinations of targets 1..n, joined by commas
RECURSIVE CommaJoinedDestinations(_)
CommaJoinedDestinations(n) ==
  IF n = 0 THEN <<>>
  ELSE IF n = 1 THEN AbsoluteDestination(1)
  ELSE CommaJoinedDestinations(n - 1) \o <<",">> \o AbsoluteDestination(n)

OutputsNamed(name) == SelectSeq(outputs, LAMBDA o : o[1] = name)

\* C25: nothing is emitted before the last target is written; from then on
\* screenshot_paths was emitted exactly once, with the comma-joined paths of
\* all targets in input order, and screenshot_path was emitted exactly once,
\* with the first of them, when there is a target, and not at all when there
\* is none.
OutputsReportAllPaths ==
  IF pc \in {"close", "finally", "done"}
  THEN /\ OutputsNamed("screenshot_paths") =
            << <<"screenshot_paths", CommaJoinedDestinations(Len(screenshotPairs))>> >>
       /\ OutputsNamed("screenshot_path") =
            IF Len(screenshotPairs) > 0
            THEN << <<"screenshot_path", AbsoluteDestination(1)>> >>
            ELSE <<>>
       /\ Len(outputs) <= 2
  ELSE pc # "exited" => outputs = <<>>

\* a run of two targets that succeeded and emitted both outputs
TwoPathsReported ==
  /\ pc = "done"
  /\ exitCode = 0
  /\ Len(screenshotPairs) = 2
  /\ Len(outputs) = 2

\* dir is the directory that holds the path p
IsParentOf(dir, p) ==
  /\ Len(p) > Len(dir) + 1
  /\ SubSeq(p, 1, Len(dir)) = dir
  /\ p[Len(dir) + 1] = "/"
  /\ \A j \in (Len(dir) + 2)..Len(p) : p[j] # "/"

\* every write was preceded by the creation of the destination's directory
DirectoryCreatedBeforeWrite ==
  \A n \in 1..Len(calls) :
    calls[n][1] = "toFile" =>
      \E m \in 1..(n - 1) :
        /\ calls[m][1] = "mkdir"
        /\ calls[m][2] = calls[n][2]
        /\ IsParentOf(calls[m][3], AbsoluteDestination(calls[n][2]))
        /\ IsParentOf(calls[m][3], calls[n][3][2])

\* C26: the recursive mkdir of the destination's directory comes before
\* the write of every target, and after a mkdir that created the directory
\* or found it there (no error, or EEXIST) the target goes on to its capture.
DirectoryEnsuredBeforeWrite ==
  /\ []DirectoryCreatedBeforeWrite
  /\ [][(pc = "ensureDirectoryExists" /\ mkdirError \in {"none", "EEXIST"})
          => (pc' = "screenshot" /\ failedAt' = 0 /\ exitCode' = -1)]_vars

\* fs.mkdir rejected with EEXIST for the directory of d/o.jpg
NestedDirectoryExists ==
  /\ pc = "ensureDirectoryExists"
  /\ mkdirError = "EEXIST"
  /\ screenshotPairs[i].outputPath = <<"d", "/", "o", ".", "j", "p", "g">>

\* C27: the path handed to toFile, the path recorded as written and the
\* path pushed on results are, for every target, the same path: the
\* destination itself when it is absolute, else <workspace>/destination.
DestinationResolvedAgainstWorkspace ==
  /\ \A n \in 1..Len(calls) :
       calls[n][1] = "toFile" => calls[n][3][2] = AbsoluteDestination(calls[n][2])
  /\ Len(results) = Len(written)
  /\ \A n \in 1..Len(written) :
       /\ written[n][2] = AbsoluteDestination(written[n][1])
       /\ results[n] = written[n][2]

\* the absolute destination /t/o.png was written and reported unchanged
AbsoluteDestinationWritten ==
  /\ pc = "done"
  /\ screenshotPairs[1].outputPath = <<"/", "t", "/", "o", ".", "p", "n", "g">>
  /\ results = << <<"/", "t", "/", "o", ".", "p", "n", "g">> >>

IndexHtmlName == <<"/", "i", "n", "d", "e", "x", ".", "h", "t", "m", "l">>

\* the path in the workspace that a request URL names
RequestedPath(url) ==
  CASE url = <<"/">> -> <<"/", "w">>
    [] url = IndexHtmlName -> <<"/", "w">> \o IndexHtmlName
    [] url \in { <<"/", "d">>, <<"/", "d", "/">>, <<"/", "d", "?", "q">> } ->
         <<"/", "w", "/", "d">>
    [] url = <<"/", "d">> \o IndexHtmlName -> <<"/", "w", "/", "d">> \o IndexHtmlName
    [] url = <<"/", "e">> -> <<"/", "w", "/", "e">>
    [] url = <<"/", "f">> -> <<"/", "w", "/", "f">>
    [] url = <<"/", "x">> -> <<"/", "w", "/", "x">>

\* C28: a request for a directory that holds an index.html, the root
\* directory for "/", is answered with status 200 and that index.html; a
\* request for a path that is neither a file nor a directory of the
\* workspace is answered with status 404.
DirectoryIndexOrNotFound ==
  request # Null =>
    LET target == RequestedPath(request)
    IN  /\ (target \in fileSystem.dirs
             /\ (target \o IndexHtmlName) \in fileSystem.files) =>
              response = [status |-> 200, kind |-> "file",
                          path |-> target \o IndexHtmlName]
        /\ (target \notin fileSystem.dirs /\ target \notin fileSystem.files) =>
              response.status = 404

\* the request /d/ was answered with /w/d/index.html
DirectoryIndexServed ==
  /\ request = <<"/", "d", "/">>
  /\ response = [status |-> 200, kind |-> "file",
                  path |-> <<"/", "w", "/", "d">> \o IndexHtmlName]

\* C29: waitForServer never stays where it is: as long as the run is in
\* it, at most maxAttempts probes were started and a step of the run is
\* possible (the probe in flight settles, or the loop ends).
WaitForServerNeverStuck ==
  pc \in {"waitForServer", "checkServer"} =>
    /\ attempt <= maxAttempts + 1
    /\ ENABLED Next

Occurrences(log, k) == Cardinality({n \in 1..Len(log) : log[n] = k})

\* the work of a run is bounded by its targets: each target is navigated
\* to, captured and written at most once, with at most five calls for it,
\* there is at most one server start and one browser launch, and at most
\* maxAttempts probes
WorkBoundedByTargets ==
  /\ \A k \in 1..Len(screenshotPairs) :
       /\ Occurrences([n \in 1..Len(navigations) |-> navigations[n][1]], k) <= 1
       /\ Occurrences(captures, k) <= 1
       /\ Occurrences([n \in 1..Len(written) |-> written[n][1]], k) <= 1
  /\ Len(navigations) <= Len(screenshotPairs)
  /\ Len(calls) <= 5 * Len(screenshotPairs)
  /\ serverStarts <= 1 /\ browserLaunches <= 1
  /\ attempt <= maxAttempts + 1

\* C30: the work of a run is bounded by its targets, no target being
\* processed twice, and every run ends (with status 0 or 1) unless a
\* readiness probe of the server never returns.
EveryRunTerminates ==
  /\ []WorkBoundedByTargets
  /\ <>(Terminated \/ pc = "checkServer")

\* a run that ended after all its probes were rejected and its three
\* targets were navigated to
EndedAfterAllProbesAndTargets ==
  /\ Terminated
  /\ waitExhausted
  /\ Len(navigations) = 3

---------------------------------------------------------------------------
(* Properties of what a step leaves alone, the readiness probe, the
   parser's items with several "=", the order of the outputs, the heights
   that are no number and the files of a run that failed *)

\* C31: no step after the parsing changes the parsed targets, the viewport
\* width and height or the three format options, and a step of a target
\* changes neither the environment, nor the server, nor the browser handle
\* and what was asked of the browser, nor the outputs.
ConfigurationFrozen ==
  [][/\ pc # "parse" =>
          UNCHANGED <<screenshotPairs, viewportWidth, viewportHeight,
                      webpOptions, pngOptions, jpegOptions>>
     /\ pc \in TargetSteps =>
          UNCHANGED <<urlVariant, env, server, serverPort, serverStarts, listen,
                      serverCloses, browser, browserLaunches, browserCloses,
                      newPages, viewportCalls, outputs>>]_vars

\* the third target is being encoded with the configuration as parsed
ThirdTargetUnderWay ==
  /\ pc = "encode"
  /\ i = 3
  /\ Len(results) = 2
  /\ Len(screenshotPairs) = 3
  /\ viewportHeight = Null
  /\ pngOptions = << <<Quality, <<"number", 100>>>> >>

\* C33: a target with a relative source is navigated to only with the
\* server handle set, after exactly one server start, and the URL of every
\* navigation of a relative source is not the source itself.
RelativeTargetHasServer ==
  /\ (pc = "goto" /\ ~BeginsWithScheme(screenshotPairs[i].urlPath)) =>
       (server # "null" /\ serverStarts = 1)
  /\ \A n \in 1..Len(navigations) :
       LET src == screenshotPairs[navigations[n][1]].urlPath
       IN  ~BeginsWithScheme(src) =>
             (navigations[n][2] # src /\ startsWith(navigations[n][2], LocalOrigin))

\* the relative source "b" is about to be navigated to after an absolute one
RelativeAfterAbsolute ==
  /\ pc = "goto"
  /\ i = 2
  /\ screenshotPairs[2].urlPath = <<"b">>
  /\ BeginsWithScheme(screenshotPairs[1].urlPath)
  /\ server = "Server"

\* the position of the first c in s at or after position k, Len(s) + 1
\* when there is none
RECURSIVE FirstAt(_, _, _)
FirstAt(s, c, k) ==
  IF k > Len(s) THEN Len(s) + 1
  ELSE IF s[k] = c THEN k
  ELSE FirstAt(s, c, k + 1)

\* C34: the target of an item with more than one "=" has the text before
\* the first "=" as its source and the text between the first and the
\* second "=" as its destination, both trimmed; what follows the second "="
\* is in neither.
SourceCutAtFirstEquals ==
  pc = "needsServer" =>
    LET items == SelectSeq(SplitOnAny(EffectiveScreenshots, {","}, <<>>), Boolean)
    IN  /\ Len(screenshotPairs) = Len(items)
        /\ \A k \in 1..Len(items) :
             LET t == trim(items[k])
                 e1 == FirstAt(t, "=", 1)
                 e2 == FirstAt(t, "=", e1 + 1)
             IN  e2 <= Len(t) =>
                   /\ screenshotPairs[k].urlPath = trim(SubSeq(t, 1, e1 - 1))
                   /\ screenshotPairs[k].outputPath = trim(SubSeq(t, e1 + 1, e2 - 1))

\* the item "a=b=a" gave the source "a" and the destination "b"
SecondEqualsDropped ==
  /\ pc = "needsServer"
  /\ SCREENSHOTS = <<"a", "=", "b", "=", "a">>
  /\ screenshotPairs = << [urlPath |-> <<"a">>, outputPath |-> <<"b">>] >>

\* C35: the outputs are emitted only when every target is written and
\* before browser.close() is called: while a target is processed nothing is
\* emitted and the browser is not closed, a run in which close was called
\* has emitted screenshot_paths, and a run that close ended has status 1
\* and its outputs emitted.
OutputsBetweenLastWriteAndClose ==
  /\ outputs # <<>> =>
       (failedAt = 0 /\ Len(written) = Len(screenshotPairs) /\ i = Len(written) + 1)
  /\ pc \in TargetSteps \cup {"loop", "outputs"} =>
       (outputs = <<>> /\ browserCloses = 0)
  /\ browserCloses > 0 => OutputsNamed("screenshot_paths") # <<>>
  /\ (pc = "exited" /\ browserCloses > 0) => (exitCode = 1 /\ outputs # <<>>)

\* browser.close() failed in a run of two targets that had emitted both
\* outputs
CloseFailedAfterOutputs ==
  /\ pc = "exited"
  /\ exitCode = 1
  /\ browserCloses = 1
  /\ Len(written) = 2
  /\ Len(outputs) = 2

\* what a height of the runs stands for: 0 for no height (absent or empty,
\* a text that is no number, or 0), else the number
HeightMeaning(text) ==
  CASE text = <<"9", "0", "0">> -> 900
    [] text = <<"1", "2", "p", "x">> -> 12
    [] OTHER -> 0

NoRollbackOnFailure ==
  /\ [](failedAt # 0 =>
          /\ pc = "exited" /\ exitCode = 1 /\ outputs = <<>>
          /\ Len(written) = failedAt - 1
          /\ \A n \in 1..Len(written) :
               /\ AbsoluteDestination(n) \in fileSystem.files
               /\ \E d \in fileSystem.dirs : IsParentOf(d, AbsoluteDestination(n)))
  /\ [][/\ fileSystem.files \subseteq fileSystem'.files
        /\ fileSystem.dirs \subseteq fileSystem'.dirs]_vars

\* the second target failed after its directory /w/d was created; the file
\* of the first is there
SecondFailedFirstKept ==
  /\ failedAt = 2
  /\ pc = "exited"
  /\ <<"/", "w", "/", "x", ".", "p", "n", "g">> \in fileSystem.files
  /\ <<"/", "w", "/", "d">> \in fileSystem.dirs
  /\ \A f \in fileSystem.files : ~IsParentOf(<<"/", "w", "/", "d">>, f)
  /\ outputs = <<>>

\* C32: waitForServer has reported the server ready exactly when a probe,
\* a request for "/", got a response with a status below 400; over a
\* workspace without the file index.html the server answers "/" with 404,
\* and the server is not reported ready, also when the attempts are used up.
ReadyIffProbeBelow400 ==
  /\ probeOk <=> (request = <<"/">> /\ response.status \in 1..399)
  /\ waitExhausted => ~probeOk
  /\ (<<"/", "w">> \o IndexHtmlName) \notin fileSystem.files =>
       (~probeOk /\ response.status \in {0, 404})

\* the attempts were used up on a server that answered 404 over a
\* workspace without index.html
NeverReadyWithoutIndex ==
  /\ waitExhausted
  /\ (<<"/", "w">> \o IndexHtmlName) \notin fileSystem.files
  /\ request = <<"/">>
  /\ response.status = 404
  /\ ~probeOk

---------------------------------------------------------------------------
(* Properties of the url/output variant *)

\* the position of the last c in s at or before position k, 0 when there
\* is none
RECURSIVE LastAt(_, _, _)
LastAt(s, c, k) ==
  IF k = 0 THEN 0
  ELSE IF s[k] = c THEN k
  ELSE LastAt(s, c, k - 1)

\* the name of a file without its directories, its extension (from the last
\* dot, which is not the first character of the name) and the name without
\* the extension
FileNameOf(p) == SubSeq(p, LastAt(p, "/", Len(p)) + 1, Len(p))

ExtensionOf(p) ==
  LET name == FileNameOf(p)
      dot == LastAt(name, ".", Len(name))
  IN  IF dot > 1 THEN SubSeq(name, dot, Len(name)) ELSE <<>>

StemOf(p) ==
  SubSeq(FileNameOf(p), 1, Len(FileNameOf(p)) - Len(ExtensionOf(p)))

PositionText == <<"1", "2", "3", "4", "5", "6", "7", "8", "9">>

\* the file names that were provided: those of INPUT_OUTPUT, or the one
\* default name
ProvidedOutputs ==
  LET segs == SplitOnAny(IF INPUT_OUTPUT = Absent
                         THEN <<"s", "c", "r", "e", "e", "n", "s", "h", "o", "t",
                                ".", "w", "e", "b", "p">>
                         ELSE INPUT_OUTPUT,
                         {","}, <<>>)
  IN  [k \in 1..Len(segs) |-> trim(segs[k])]

\* C38: once the inputs are parsed every URL has a file name; the names
\* that were provided are in their places, and each name after them is the
\* name before it without its directories and extension, then "_" and the
\* position of the new name, counted from 1, then that extension.
GeneratedFileNames ==
  pc = "url.servers" =>
    /\ Len(urls) = Len(SplitOnAny(INPUT_URL, {","}, <<>>))
    /\ Len(outputFiles) >= Len(urls)
    /\ Len(outputFiles) >= Len(ProvidedOutputs)
    /\ Len(outputFiles) \in {Len(urls), Len(ProvidedOutputs)}
    /\ \A k \in 1..Len(ProvidedOutputs) : outputFiles[k] = ProvidedOutputs[k]
    /\ \A k \in (Len(ProvidedOutputs) + 1)..Len(outputFiles) :
         outputFiles[k] =
           StemOf(outputFiles[k - 1]) \o <<"_", PositionText[k]>>
             \o ExtensionOf(outputFiles[k - 1])

\* "output1.png" for three URLs gave output1.png, output1_2.png and
\* output1_2_3.png
OneNameForThreeUrls ==
  /\ pc = "url.servers"
  /\ Len(urls) = 3
  /\ outputFiles =
       << <<"o", "u", "t", "p", "u", "t", "1", ".", "p", "n", "g">>,
          <<"o", "u", "t", "p", "u", "t", "1", "_", "2", ".", "p", "n", "g">>,
          <<"o", "u", "t", "p", "u", "t", "1", "_", "2", "_", "3", ".", "p", "n", "g">> >>

\* the port of the server that a URL of the runs asks for: the port of a
\* URL whose host is localhost or 127.0.0.1, 5000 when it has none, and 0
\* for a URL of another host
LocalPortOf(url) ==
  CASE url = <<"h", "t", "t", "p", ":", "/", "/", "l", "o", "c", "a", "l", "h", "o",
               "s", "t", ":", "8", "0", "8", "0">> -> 8080
    [] url = <<"h", "t", "t", "p", ":", "/", "/", "l", "o", "c", "a", "l", "h", "o",
               "s", "t", ":", "5", "0", "0", "0">> -> 5000
    [] url = <<"h", "t", "t", "p", ":", "/", "/", "l", "o", "c", "a", "l", "h", "o",
               "s", "t">> -> 5000
    [] url = <<"1", "2", "7", ".", "0", ".", "0", ".", "1", ":", "9", "0", "0", "0">> -> 9000
    [] url = <<"h", "t", "t", "p", ":", "/", "/", "l", "o", "c", "a", "l", "h", "o",
               "s", "t", ":", "8", "0", "8", "0", "/", "a">> -> 8080
    [] url = <<"h", "t", "t", "p", ":", "/", "/", "l", "o", "c", "a", "l", "h", "o",
               "s", "t", ":", "8", "0">> -> 80
    [] OTHER -> 0

SpawnedPorts == { spawns[n] : n \in 1..Len(spawns) }

\* C39: once the servers are started there is exactly one server process
\* for each distinct port of the local URLs and none for the other URLs,
\* and a run that has ended has killed every process it spawned.
OneServerPerLocalPortAllKilled ==
  /\ pc \notin {"url.parse", "url.servers"} =>
       /\ \A m, n \in 1..Len(spawns) : spawns[m] = spawns[n] => m = n
       /\ SpawnedPorts = { LocalPortOf(urls[k]) : k \in 1..Len(urls) } \ {0}
  /\ Terminated =>
       \A port \in SpawnedPorts : \E n \in 1..Len(kills) : kills[n] = port

====
